---- MODULE Spec2Model ----
(***************************************************************************)
(* Model of twisted.web.static: File.render_GET / File.makeProducer, the   *)
(* Range header parser and resolver, and the three StaticProducer          *)
(* strategies (NoRange, SingleRange, MultipleRange) driven by a pull       *)
(* transport.                                                              *)
(*                                                                         *)
(* Strings are sequences of one-character strings.  An optional value      *)
(* (Python None or a value) is the empty sequence or a one-element         *)
(* sequence.  A body byte is a triple: <<"file", p, 0>> is the file's byte *)
(* at position p, <<"sep", a, b>> a byte of the part separator announcing  *)
(* Content-range a-b, <<"end", 0, 0>> a byte of the closing boundary.      *)
(***************************************************************************)
EXTENDS Integers, Sequences, FiniteSets, TLC

(* ------------------------------ bounds --------------------------------- *)
\* Largest file size served (file sizes are 0..MaxFileSize).
MaxFileSize == 5
\* Scaled stand-in for StaticProducer.bufferSize (abstract.FileDescriptor
\* .bufferSize, 65536 in the program): the chunk size of one read.
BufferSize == 4
\* Scaled length of one multipart part separator (len(partSeparator)).
SepLen == 2
\* Scaled length of the closing boundary (len(finalBoundary)).
FinalLen == 1
\* Deepest nesting of resumeProducing calls re-entered from request.write.
MaxDepth == 3
\* Most stopProducing calls the transport makes on one producer.
MaxStops == 2
\* The longest list of names a caller gives a DirectoryLister.
MaxDirs == 2
\* The most entries that vanish while one listing is rendered.
MaxVanished == 1
\* The deepest subdirectory whose File serves a further path segment.
MaxDescents == 1
\* The most names or extensions a caller appends to one child File's lists.
MaxAppends == 1

(* --------------------------- HTTP constants ---------------------------- *)
OK == 200
PARTIAL_CONTENT == 206
NOT_MODIFIED == 304
FORBIDDEN == 403
NOT_FOUND == 404
REQUESTED_RANGE_NOT_SATISFIABLE == 416
FOUND == 302

(* ------------------------------ strings -------------------------------- *)
None == <<>>
Some(v) == <<v>>

DigitChars == <<"0", "1", "2", "3", "4", "5", "6", "7", "8", "9">>
Whitespace == {" "}

IsDigit(c) == \E i \in 1..10 : DigitChars[i] = c
DigitVal(c) == (CHOOSE i \in 1..10 : DigitChars[i] = c) - 1

\* Python "%d" % n
RECURSIVE FormatNat(_)
FormatNat(n) == IF n < 10 THEN <<DigitChars[n + 1]>>
                ELSE FormatNat(n \div 10) \o <<DigitChars[(n % 10) + 1]>>
FormatInt(n) == IF n < 0 THEN <<"-">> \o FormatNat(0 - n) ELSE FormatNat(n)

\* str.find: index (1-based) of the first c in s, 0 if there is none
IndexOf(s, c) ==
    IF \E i \in 1..Len(s) : s[i] = c
    THEN CHOOSE i \in 1..Len(s) : s[i] = c /\ \A j \in 1..(i - 1) : s[j] # c
    ELSE 0

\* str.split(c, 1): one or two pieces
SplitOnce(s, c) ==
    LET i == IndexOf(s, c)
    IN  IF i = 0 THEN <<s>>
        ELSE <<SubSeq(s, 1, i - 1), SubSeq(s, i + 1, Len(s))>>

\* str.split(c): all pieces
RECURSIVE SplitAll(_, _)
SplitAll(s, c) ==
    LET i == IndexOf(s, c)
    IN  IF i = 0 THEN <<s>>
        ELSE <<SubSeq(s, 1, i - 1)>> \o SplitAll(SubSeq(s, i + 1, Len(s)), c)

\* str.strip
RECURSIVE LStrip(_)
LStrip(s) == IF s # <<>> /\ Head(s) \in Whitespace THEN LStrip(Tail(s)) ELSE s
RECURSIVE RStrip(_)
RStrip(s) == IF s # <<>> /\ s[Len(s)] \in Whitespace
             THEN RStrip(SubSeq(s, 1, Len(s) - 1)) ELSE s
Strip(s) == RStrip(LStrip(s))

RECURSIVE DigitsValue(_)
DigitsValue(s) == IF s = <<>> THEN 0
                  ELSE 10 * DigitsValue(SubSeq(s, 1, Len(s) - 1)) + DigitVal(s[Len(s)])

\* Python int(str): surrounding whitespace and one sign are accepted, then
\* one or more decimal digits; anything else is ValueError (ok = FALSE).
ParseInt(s) ==
    LET t == Strip(s)
        signed == t # <<>> /\ Head(t) \in {"+", "-"}
        d == IF signed THEN Tail(t) ELSE t
    IN  IF d # <<>> /\ \A i \in 1..Len(d) : IsDigit(d[i])
        THEN [ok |-> TRUE,
              val |-> IF signed /\ Head(t) = "-" THEN 0 - DigitsValue(d)
                      ELSE DigitsValue(d)]
        ELSE [ok |-> FALSE, val |-> 0]

RECURSIVE Join(_, _)
Join(parts, c) == IF parts = <<>> THEN <<>>
                  ELSE IF Len(parts) = 1 THEN parts[1]
                  ELSE parts[1] \o <<c>> \o Join(Tail(parts), c)

RECURSIVE Flatten(_)
Flatten(chunks) == IF chunks = <<>> THEN <<>>
                   ELSE Head(chunks) \o Flatten(Tail(chunks))

RECURSIVE FilterNonEmpty(_)
FilterNonEmpty(parts) ==
    IF parts = <<>> THEN <<>>
    ELSE IF Head(parts) = <<>> THEN FilterNonEmpty(Tail(parts))
    ELSE <<Head(parts)>> \o FilterNonEmpty(Tail(parts))

Min(a, b) == IF a < b THEN a ELSE b

(* --------------------------- Range parsing ----------------------------- *)
BytesUnit == <<"b", "y", "t", "e", "s">>

\* parseByteRange without the check that start <= end.
parseByteRangeAnyOrder(byteRange) ==
    LET bounds(startS, endS, startI, endI) ==
            IF startS # <<>> /\ ~startI.ok THEN [ok |-> FALSE, range |-> <<None, None>>]
            ELSE IF endS # <<>> /\ ~endI.ok THEN [ok |-> FALSE, range |-> <<None, None>>]
            ELSE IF startS = <<>> /\ endS = <<>>
                 THEN [ok |-> FALSE, range |-> <<None, None>>]
            ELSE [ok |-> TRUE,
                  range |-> <<IF startS # <<>> THEN Some(startI.val) ELSE None,
                              IF endS # <<>> THEN Some(endI.val) ELSE None>>]
        split(pieces) ==
            IF Len(pieces) # 2 THEN [ok |-> FALSE, range |-> <<None, None>>]
            ELSE bounds(pieces[1], pieces[2], ParseInt(pieces[1]), ParseInt(pieces[2]))
    IN  split(SplitOnce(byteRange, "-"))

\* One entry of the header: start, end = byteRange.split('-', 1), each bound
\* converted with int() when non-empty.  ok = FALSE is ValueError.
InvalidByteRange == [ok |-> FALSE, range |-> <<None, None>>]
parseByteRange(byteRange) ==
    LET bounds(startS, endS, startI, endI) ==
            IF startS # <<>> /\ ~startI.ok THEN InvalidByteRange
            ELSE IF endS # <<>> /\ ~endI.ok THEN InvalidByteRange
            ELSE IF startS # <<>> /\ endS # <<>> /\ startI.val > endI.val
                 THEN InvalidByteRange
            ELSE IF startS = <<>> /\ endS = <<>> THEN InvalidByteRange
            ELSE [ok |-> TRUE,
                  range |-> <<IF startS # <<>> THEN Some(startI.val) ELSE None,
                              IF endS # <<>> THEN Some(endI.val) ELSE None>>]
        split(pieces) ==
            IF Len(pieces) # 2 THEN InvalidByteRange
            ELSE bounds(pieces[1], pieces[2], ParseInt(pieces[1]), ParseInt(pieces[2]))
    IN  split(SplitOnce(byteRange, "-"))

RECURSIVE parseByteRanges(_)
parseByteRanges(unparsedRanges) ==
    LET both(first, rest) ==
            IF first.ok /\ rest.ok
            THEN [ok |-> TRUE, ranges |-> <<first.range>> \o rest.ranges]
            ELSE [ok |-> FALSE, ranges |-> <<>>]
    IN  IF unparsedRanges = <<>> THEN [ok |-> TRUE, ranges |-> <<>>]
        ELSE both(parseByteRange(Head(unparsedRanges)),
                  parseByteRanges(Tail(unparsedRanges)))

\* A _parseRangeHeader that accepts any Bytes-Unit.
parseRangeHeaderAnyUnit(range) ==
    LET entries(pieces) ==
            parseByteRanges(FilterNonEmpty([i \in 1..Len(pieces) |-> Strip(pieces[i])]))
        unit(kv) ==
            IF Len(kv) # 2 THEN [ok |-> FALSE, ranges |-> <<>>]
            ELSE entries(SplitAll(kv[2], ","))
    IN  unit(SplitOnce(range, "="))

\* File._parseRangeHeader: ok = FALSE is the ValueError it raises.
parseRangeHeader(range) ==
    LET entries(pieces) ==
            parseByteRanges(FilterNonEmpty([i \in 1..Len(pieces) |-> Strip(pieces[i])]))
        unit(kv) ==
            IF Len(kv) # 2 THEN [ok |-> FALSE, ranges |-> <<>>]
            ELSE IF Strip(kv[1]) # BytesUnit THEN [ok |-> FALSE, ranges |-> <<>>]
            ELSE entries(SplitAll(kv[2], ","))
    IN  unit(SplitOnce(range, "="))

(* -------------------------- Range resolution --------------------------- *)
\* A _rangeToOffsetAndSize that takes end as exclusive.
rangeToOffsetAndSizeExclusiveEnd(start, end, size) ==
    LET start1 == IF start = None THEN size - end[1] ELSE start[1]
        end1 == IF start = None THEN size
                ELSE IF end = None THEN size
                ELSE IF end[1] > size THEN size
                ELSE end[1]
    IN  IF start1 >= size THEN <<0, 0>> ELSE <<start1, end1 - start1>>

\* A _rangeToOffsetAndSize that does not clamp end to the file size.
rangeToOffsetAndSizeUnclampedEnd(start, end, size) ==
    LET start1 == IF start = None THEN size - end[1] ELSE start[1]
        end1 == IF start = None THEN size
                ELSE IF end = None THEN size
                ELSE end[1] + 1
    IN  IF start1 >= size THEN <<0, 0>> ELSE <<start1, end1 - start1>>

\* File._rangeToOffsetAndSize with getFileSize() = size.
rangeToOffsetAndSize(start, end, size) ==
    LET start1 == IF start = None THEN size - end[1] ELSE start[1]
        end1 == IF start = None THEN size
                ELSE IF end = None THEN size
                ELSE IF end[1] < size THEN end[1] + 1
                ELSE IF end[1] > size THEN size
                ELSE end[1]
    IN  IF start1 >= size THEN <<0, 0>> ELSE <<start1, end1 - start1>>

\* A Content-Range whose last position is one past the range.
contentRangeExclusiveEnd(offset, size, fileSize) ==
    [kind |-> "range", first |-> offset, last |-> offset + size,
     total |-> fileSize]

\* File._contentRange: 'bytes %d-%d/%d'
contentRange(offset, size, fileSize) ==
    [kind |-> "range", first |-> offset, last |-> offset + size - 1,
     total |-> fileSize]

\* 'bytes */%d'
UnsatisfiedRange(fileSize) ==
    [kind |-> "star", first |-> 0, last |-> 0, total |-> fileSize]

(* ------------------------- type and encoding -------------------------- *)
UpperChars == <<"G", "Z", "T", "X", "R", "P", "Y">>
LowerChars == <<"g", "z", "t", "x", "r", "p", "y">>
LowerChar(c) == IF \E i \in 1..Len(UpperChars) : UpperChars[i] = c
                THEN LowerChars[CHOOSE i \in 1..Len(UpperChars) : UpperChars[i] = c]
                ELSE c
Lower(s) == [i \in 1..Len(s) |-> LowerChar(s[i])]

LastIndexOf(s, c) ==
    IF \E i \in 1..Len(s) : s[i] = c
    THEN CHOOSE i \in 1..Len(s) : s[i] = c /\ \A j \in (i + 1)..Len(s) : s[j] # c
    ELSE 0

\* os.path.splitext on a name without directory separators: the extension
\* starts at the last dot, unless only dots precede it.
splitext(p) ==
    LET i == LastIndexOf(p, ".")
    IN  IF i = 0 \/ \A j \in 1..(i - 1) : p[j] = "."
        THEN <<p, <<>>>>
        ELSE <<SubSeq(p, 1, i - 1), SubSeq(p, i, Len(p))>>

ExtGz == <<".", "g", "z">>
ExtBz2 == <<".", "b", "z", "2">>
ExtTxt == <<".", "t", "x", "t">>

\* File.contentEncodings
contentEncodings(ext) == IF ext = ExtGz THEN Some("gzip")
                         ELSE IF ext = ExtBz2 THEN Some("bzip2")
                         ELSE None
\* File.contentTypes (the entries of the MIME table the served names use)
contentTypes(ext) == IF ext = ExtTxt THEN Some("text/plain") ELSE None

\* File.__init__'s defaultType
DefaultType == "text/html"

\* A getTypeAndEncoding that does not lower-case the extensions.
getTypeAndEncodingCaseSensitive(filename, defaultType) ==
    LET pe == splitext(filename)
        ext0 == pe[2]
        isEnc == contentEncodings(ext0) # None
        enc == IF isEnc THEN contentEncodings(ext0) ELSE None
        ext == IF isEnc THEN splitext(pe[1])[2] ELSE ext0
        type == IF contentTypes(ext) # None THEN contentTypes(ext)[1] ELSE defaultType
    IN  [type |-> Some(type), encoding |-> enc]

\* getTypeAndEncoding(filename, types, encodings, defaultType), with
\* File.contentTypes and File.contentEncodings for types and encodings
getTypeAndEncoding(filename, defaultType) ==
    LET pe == splitext(filename)
        ext0 == Lower(pe[2])
        isEnc == contentEncodings(ext0) # None
        enc == IF isEnc THEN contentEncodings(ext0) ELSE None
        ext == IF isEnc THEN Lower(splitext(pe[1])[2]) ELSE ext0
        type == IF contentTypes(ext) # None THEN contentTypes(ext)[1] ELSE defaultType
    IN  [type |-> Some(type), encoding |-> enc]

(* ------------------------------ addSlash ------------------------------- *)
HttpPrefix == <<"h", "t", "t", "p">>
\* An addSlash that drops the query string.
addSlashDropsQuery(uri, secure, host) ==
    HttpPrefix \o (IF secure THEN <<"s">> ELSE <<>>) \o <<":", "/", "/">>
    \o host \o SplitAll(uri, "?")[1] \o <<"/">>

\* addSlash(request)
addSlash(uri, secure, host) ==
    LET qindex == IndexOf(uri, "?")
        qs == IF qindex # 0 THEN SubSeq(uri, qindex, Len(uri)) ELSE <<>>
    IN  HttpPrefix \o (IF secure THEN <<"s">> ELSE <<>>) \o <<":", "/", "/">>
        \o host \o SplitAll(uri, "?")[1] \o <<"/">> \o qs

(* ---------------------------- file objects ----------------------------- *)
\* The bytes of a file of the given size.
FileBytes(size) == [p \in 1..size |-> <<"file", p - 1, 0>>]

\* fileObject.read(n) at position pos: up to n bytes, or everything to the
\* end of the file when n is negative.
FileRead(size, pos, n) ==
    LET stop == IF n < 0 THEN size ELSE Min(size, pos + n)
    IN  IF pos >= stop THEN <<>> ELSE SubSeq(FileBytes(size), pos + 1, stop)

(* ---------------------------- the response ----------------------------- *)
NoHeaders ==
    [acceptRanges |-> None, contentLength |-> None, contentType |-> None,
     contentEncoding |-> None, contentRange |-> None, location |-> None]

\* The boundary token of one multipart response ("%x%x" of time and pid).
Boundary == "boundary"
MultipartType == "multipart/byteranges"

\* partSeparator and finalBoundary of File._doMultipleRangeRequest
partSeparator(cr) == [i \in 1..SepLen |-> <<"sep", cr.first, cr.last>>]
finalBoundary == [i \in 1..FinalLen |-> <<"end", 0, 0>>]

NoProducer ==
    [kind |-> "none", request |-> FALSE, offset |-> 0, size |-> 0,
     bytesWritten |-> 0, rangeInfo |-> <<>>, rangeIter |-> 0,
     partBoundary |-> None, partSize |-> 0, partBytesWritten |-> 0]

\* StaticProducer.__init__ and the subclasses' constructors
NoRangeStaticProducer == [NoProducer EXCEPT !.kind = "NoRange", !.request = TRUE]
SingleRangeStaticProducer(offset, size) ==
    [NoProducer EXCEPT !.kind = "SingleRange", !.request = TRUE,
                       !.offset = offset, !.size = size]
MultipleRangeStaticProducer(rangeInfo) ==
    [NoProducer EXCEPT !.kind = "MultipleRange", !.request = TRUE,
                       !.rangeInfo = rangeInfo]

\* File._setContentHeaders
setContentHeaders(h, size, type, encoding) ==
    [h EXCEPT !.contentLength = Some(size),
              !.contentType = IF type # None THEN type ELSE @,
              !.contentEncoding = IF encoding # None THEN encoding ELSE @]

\* File._doSingleRangeRequest: the response code, the headers, and the
\* (offset, size) it returns
doSingleRangeRequest(h, range, fileSize) ==
    LET respond(offset, size) ==
            IF offset = 0 /\ size = 0
            THEN [code |-> REQUESTED_RANGE_NOT_SATISFIABLE,
                  headers |-> [h EXCEPT !.contentRange =
                                       Some(UnsatisfiedRange(fileSize))],
                  offset |-> offset, size |-> size]
            ELSE [code |-> PARTIAL_CONTENT,
                  headers |-> [h EXCEPT !.contentRange =
                                       Some(contentRange(offset, size, fileSize))],
                  offset |-> offset, size |-> size]
        unpack(os) == respond(os[1], os[2])
    IN  unpack(rangeToOffsetAndSize(range[1], range[2], fileSize))

\* The loop of File._doMultipleRangeRequest: rangeInfo and contentLength
RECURSIVE multipleRangeParts(_, _)
multipleRangeParts(byteRanges, fileSize) ==
    LET part(partOffset, partSize, partSeparator1, rest) ==
            IF partOffset = 0 /\ partSize = 0 THEN rest
            ELSE [rangeInfo |-> <<<<partSeparator1, partOffset, partSize>>>>
                                \o rest.rangeInfo,
                  contentLength |-> partSize + Len(partSeparator1)
                                    + rest.contentLength]
        unpack(os, rest) ==
            part(os[1], os[2],
                 partSeparator(contentRange(os[1], os[2], fileSize)), rest)
    IN  IF byteRanges = <<>> THEN [rangeInfo |-> <<>>, contentLength |-> 0]
        ELSE unpack(rangeToOffsetAndSize(Head(byteRanges)[1], Head(byteRanges)[2],
                                         fileSize),
                    multipleRangeParts(Tail(byteRanges), fileSize))

\* A _doMultipleRangeRequest whose Content-Length leaves the closing
\* boundary out.
doMultipleRangeRequestShortLength(h, byteRanges, fileSize) ==
    LET respond(parts) ==
            IF parts.rangeInfo = <<>>
            THEN [code |-> REQUESTED_RANGE_NOT_SATISFIABLE,
                  headers |-> [h EXCEPT !.contentLength = Some(0),
                                        !.contentRange =
                                            Some(UnsatisfiedRange(fileSize))],
                  rangeInfo |-> <<<<>>, <<>>>>]
            ELSE [code |-> PARTIAL_CONTENT,
                  headers |-> [h EXCEPT !.contentType = Some(MultipartType),
                                        !.contentLength =
                                            Some(parts.contentLength)],
                  rangeInfo |-> parts.rangeInfo \o <<<<finalBoundary, 0, 0>>>>]
    IN  respond(multipleRangeParts(byteRanges, fileSize))

\* File._doMultipleRangeRequest.  With no matching range it returns the pair
\* ([], ''), which makeProducer passes on as rangeInfo.
doMultipleRangeRequest(h, byteRanges, fileSize) ==
    LET respond(parts) ==
            IF parts.rangeInfo = <<>>
            THEN [code |-> REQUESTED_RANGE_NOT_SATISFIABLE,
                  headers |-> [h EXCEPT !.contentLength = Some(0),
                                        !.contentRange =
                                            Some(UnsatisfiedRange(fileSize))],
                  rangeInfo |-> <<<<>>, <<>>>>]
            ELSE [code |-> PARTIAL_CONTENT,
                  headers |-> [h EXCEPT !.contentType = Some(MultipartType),
                                        !.contentLength =
                                            Some(parts.contentLength
                                                 + Len(finalBoundary))],
                  rangeInfo |-> parts.rangeInfo \o <<<<finalBoundary, 0, 0>>>>]
    IN  respond(multipleRangeParts(byteRanges, fileSize))

\* File.makeProducer: the response code and headers it sets and the
\* producer it returns.  byteRange is None or Some(header value).
makeProducer(h, byteRange, fileSize, type, encoding) ==
    LET whole ==
            [code |-> OK,
             headers |-> setContentHeaders(h, fileSize, type, encoding),
             producer |-> NoRangeStaticProducer]
        single(s) ==
            [code |-> s.code,
             headers |-> setContentHeaders(s.headers, s.size, type, encoding),
             producer |-> SingleRangeStaticProducer(s.offset, s.size)]
        multiple(m) ==
            [code |-> m.code, headers |-> m.headers,
             producer |-> MultipleRangeStaticProducer(m.rangeInfo)]
        ranged(parsed) ==
            IF ~parsed.ok THEN whole
            ELSE IF Len(parsed.ranges) = 1
            THEN single(doSingleRangeRequest(h, parsed.ranges[1], fileSize))
            ELSE multiple(doMultipleRangeRequest(h, parsed.ranges, fileSize))
    IN  IF byteRange = None THEN whole
        ELSE ranged(parseRangeHeader(byteRange[1]))

(* ------------------------------- state --------------------------------- *)
VARIABLES
    file,       \* the File resource: what its path is, size, name, cached type
    request,    \* the request rendered: method, Range header (None or
                \* Some(value)) and what it parses to, URI, scheme, and
                \* whether its conditional headers are a cache hit; method
                \* "none" before it arrives
    code,       \* the response code set on the request, 0 while none is set
    headers,    \* the response headers set on the request
    result,     \* what render_GET returned, "none" before it ran
    world,      \* the producer, its file object and the request's transport side
    stack,      \* resumeProducing calls suspended inside request.write
    stops,      \* stopProducing calls made by the transport
    childResource,  \* what File.getChild returned, or the DirectoryLister a caller
                \* made; kind "none" before
    listing     \* None, or Some of the page DirectoryLister.render returned
                \* and the entries that were gone when it looked at them

vars == <<file, request, code, headers, result, world, stack, stops, childResource,
          listing>>

NoWorld ==
    [producer |-> NoProducer,
     fileObject |-> [opened |-> FALSE, closed |-> FALSE, pos |-> 0],
     written |-> <<>>, registered |-> FALSE, registerCalls |-> 0,
     unregisterCalls |-> 0, finishCalls |-> 0, raised |-> "none",
     hung |-> FALSE]

(* ---------------------------- the producers ---------------------------- *)
\* request.write(data)
write(w, data) == [w EXCEPT !.written = Append(@, data)]

\* request.unregisterProducer(); request.finish()
unregisterAndFinish(w) ==
    [w EXCEPT !.registered = FALSE, !.unregisterCalls = @ + 1,
              !.finishCalls = @ + 1]

raise(w, exc) == [w EXCEPT !.raised = exc]

\* fileObject.seek(offset): a negative offset is IOError (EINVAL)
seek(w, offset) ==
    IF offset < 0 THEN raise(w, "IOError")
    ELSE [w EXCEPT !.fileObject.pos = offset]

\* A stopProducing that also unregisters and finishes the request.
stopProducingAndFinish(w) ==
    [w EXCEPT !.fileObject.closed = TRUE, !.producer.request = FALSE,
              !.registered = FALSE, !.unregisterCalls = @ + 1,
              !.finishCalls = @ + 1]

\* StaticProducer.stopProducing
stopProducing(w) ==
    [w EXCEPT !.fileObject.closed = TRUE, !.producer.request = FALSE]

\* MultipleRangeStaticProducer._nextRange; stop = TRUE is StopIteration
nextRange(w) ==
    LET p == w.producer
    IN  IF p.rangeIter >= Len(p.rangeInfo) THEN [stop |-> TRUE, w |-> w]
        ELSE LET item == p.rangeInfo[p.rangeIter + 1]
                 w1 == [w EXCEPT !.producer.rangeIter = @ + 1]
             IN  IF Len(item) # 3
                 THEN [stop |-> FALSE, w |-> raise(w1, "ValueError")]
                 ELSE [stop |-> FALSE,
                       w |-> seek([w1 EXCEPT !.producer.partBoundary = Some(item[1]),
                                             !.producer.partSize = item[3],
                                             !.producer.partBytesWritten = 0],
                                  item[2])]

\* A start() that pushes a first byte as soon as it has registered.
producerStartPushes(w) ==
    LET register(x) ==
            write([x EXCEPT !.registered = TRUE, !.registerCalls = @ + 1],
                  <<<<"file", 0, 0>>>>)
    IN  IF w.producer.kind = "NoRange" THEN register(w)
        ELSE IF w.producer.kind = "SingleRange"
        THEN LET w1 == seek(w, w.producer.offset)
             IN  IF w1.raised # "none" THEN w1
                 ELSE register([w1 EXCEPT !.producer.bytesWritten = 0])
        ELSE LET n == nextRange([w EXCEPT !.producer.rangeIter = 0])
             IN  IF n.stop THEN raise(n.w, "StopIteration")
                 ELSE IF n.w.raised # "none" THEN n.w
                 ELSE register(n.w)

\* start() of the three producers
producerStart(w) ==
    LET register(x) == [x EXCEPT !.registered = TRUE, !.registerCalls = @ + 1]
    IN  IF w.producer.kind = "NoRange" THEN register(w)
        ELSE IF w.producer.kind = "SingleRange"
        THEN LET w1 == seek(w, w.producer.offset)
             IN  IF w1.raised # "none" THEN w1
                 ELSE register([w1 EXCEPT !.producer.bytesWritten = 0])
        ELSE LET n == nextRange([w EXCEPT !.producer.rangeIter = 0])
             IN  IF n.stop THEN raise(n.w, "StopIteration")
                 ELSE IF n.w.raised # "none" THEN n.w
                 ELSE register(n.w)

\* A resumeProducing call either runs to its end, or is suspended inside
\* request.write with the frame holding its local variables.
Returned(w) == [w |-> w, suspended |-> FALSE, frame |-> [done |-> FALSE]]
InWrite(w, done) == [w |-> w, suspended |-> TRUE, frame |-> [done |-> done]]

\* A whole-file resumeProducing that reads one byte more than bufferSize.
noRangeResumeOversized(w, fileSize) ==
    LET data == FileRead(fileSize, w.fileObject.pos, BufferSize + 1)
        w1 == [w EXCEPT !.fileObject.pos = @ + Len(data)]
    IN  IF ~w.producer.request THEN Returned(w)
        ELSE IF data # <<>> THEN InWrite(write(w1, data), FALSE)
        ELSE Returned(stopProducing(unregisterAndFinish(w1)))

\* NoRangeStaticProducer.resumeProducing
noRangeResume(w, fileSize) ==
    LET data == FileRead(fileSize, w.fileObject.pos, BufferSize)
        w1 == [w EXCEPT !.fileObject.pos = @ + Len(data)]
    IN  IF ~w.producer.request THEN Returned(w)
        ELSE IF data # <<>> THEN InWrite(write(w1, data), FALSE)
        ELSE Returned(stopProducing(unregisterAndFinish(w1)))

\* The end of SingleRangeStaticProducer.resumeProducing, after the write
singleRangeAfterWrite(w) ==
    IF w.producer.request /\ w.producer.bytesWritten = w.producer.size
    THEN stopProducing(unregisterAndFinish(w))
    ELSE w

\* A single-range resumeProducing that reads a whole buffer whatever is
\* left of the range.
singleRangeResumeWholeBuffer(w, fileSize) ==
    LET p == w.producer
        data == FileRead(fileSize, w.fileObject.pos, BufferSize)
        w1 == [w EXCEPT !.fileObject.pos = @ + Len(data),
                        !.producer.bytesWritten = @ + Len(data)]
    IN  IF ~p.request THEN Returned(w)
        ELSE IF data # <<>> THEN InWrite(write(w1, data), FALSE)
        ELSE Returned(singleRangeAfterWrite(w1))

\* SingleRangeStaticProducer.resumeProducing
singleRangeResume(w, fileSize) ==
    LET p == w.producer
        data == FileRead(fileSize, w.fileObject.pos,
                         Min(BufferSize, p.size - p.bytesWritten))
        w1 == [w EXCEPT !.fileObject.pos = @ + Len(data),
                        !.producer.bytesWritten = @ + Len(data)]
    IN  IF ~p.request THEN Returned(w)
        ELSE IF data # <<>> THEN InWrite(write(w1, data), FALSE)
        ELSE Returned(singleRangeAfterWrite(w1))

\* The while loop of MultipleRangeStaticProducer.resumeProducing.  An
\* iteration that adds no boundary, reads nothing and does not complete the
\* part leaves every variable as it was: the loop never exits (hung).
RECURSIVE multipleRangeLoop(_, _, _)
multipleRangeLoop(w, data, fileSize) ==
    IF Len(data) >= BufferSize THEN [w |-> w, data |-> data, done |-> FALSE]
    ELSE
    LET p == w.producer
        data1 == IF p.partBoundary # None /\ p.partBoundary[1] # <<>>
                 THEN data \o p.partBoundary[1] ELSE data
        boundary1 == IF p.partBoundary # None /\ p.partBoundary[1] # <<>>
                     THEN None ELSE p.partBoundary
        chunk == FileRead(fileSize, w.fileObject.pos,
                          Min(BufferSize - Len(data1),
                              p.partSize - p.partBytesWritten))
        w1 == [w EXCEPT !.producer.partBoundary = boundary1,
                        !.producer.partBytesWritten = @ + Len(chunk),
                        !.fileObject.pos = @ + Len(chunk)]
        data2 == data1 \o chunk
    IN  IF w1.producer.request /\ w1.producer.partBytesWritten = w1.producer.partSize
        THEN LET n == nextRange(w1)
             IN  IF n.stop THEN [w |-> w1, data |-> data2, done |-> TRUE]
                 ELSE IF n.w.raised # "none"
                 THEN [w |-> n.w, data |-> data2, done |-> FALSE]
                 ELSE multipleRangeLoop(n.w, data2, fileSize)
        ELSE IF w1 = w /\ data2 = data
        THEN [w |-> [w EXCEPT !.hung = TRUE], data |-> data, done |-> FALSE]
        ELSE multipleRangeLoop(w1, data2, fileSize)

\* The end of MultipleRangeStaticProducer.resumeProducing, after the write:
\* with request already None, request.unregisterProducer is AttributeError
multipleRangeAfterWrite(w, done) ==
    IF ~done THEN w
    ELSE IF ~w.producer.request THEN raise(w, "AttributeError")
    ELSE [unregisterAndFinish(w) EXCEPT !.producer.request = FALSE]

\* MultipleRangeStaticProducer.resumeProducing
multipleRangeResume(w, fileSize) ==
    LET l == multipleRangeLoop(w, <<>>, fileSize)
    IN  IF ~w.producer.request THEN Returned(w)
        ELSE IF l.w.raised # "none" \/ l.w.hung THEN Returned(l.w)
        ELSE InWrite(write(l.w, l.data), l.done)

resumeProducing(w, fileSize) ==
    IF w.producer.kind = "NoRange" THEN noRangeResume(w, fileSize)
    ELSE IF w.producer.kind = "SingleRange" THEN singleRangeResume(w, fileSize)
    ELSE multipleRangeResume(w, fileSize)

\* What a suspended resumeProducing does once its request.write returns
afterWrite(w, frame) ==
    IF w.producer.kind = "NoRange" THEN w
    ELSE IF w.producer.kind = "SingleRange" THEN singleRangeAfterWrite(w)
    ELSE multipleRangeAfterWrite(w, frame.done)

(* ----------------------------- render_GET ------------------------------ *)
\* request.setLastModified(mtime): on a cache hit (the request's
\* If-Modified-Since is not older than mtime) the response code becomes 304
\* and the call returns http.CACHED.
setLastModified(c, cached) == IF cached THEN NOT_MODIFIED ELSE c

Rendered(f, c, h, res, w) ==
    [file |-> f, code |-> c, headers |-> h, result |-> res, world |-> w]

OpenedWorld == [NoWorld EXCEPT !.fileObject.opened = TRUE]

\* The end of render_GET without the test for a HEAD request.
renderProducerAlwaysStarts(f, m, mp) ==
    LET started(w) ==
            Rendered(f, mp.code, mp.headers,
                     IF w.raised # "none" THEN "raised" ELSE "NOT_DONE_YET", w)
    IN  started(producerStart([OpenedWorld EXCEPT !.producer = mp.producer]))

\* The end of File.render_GET, from makeProducer's return on: a HEAD
\* request returns '' with the producer never started, any other request
\* starts the producer and returns NOT_DONE_YET (or start() raises).
renderProducer(f, m, mp) ==
    LET started(w) ==
            Rendered(f, mp.code, mp.headers,
                     IF w.raised # "none" THEN "raised" ELSE "NOT_DONE_YET", w)
    IN  IF m = "HEAD"
        THEN Rendered(f, mp.code, mp.headers, "empty",
                      [OpenedWorld EXCEPT !.producer = mp.producer])
        ELSE started(producerStart([OpenedWorld EXCEPT !.producer = mp.producer]))

\* A render_GET that makes the producer before it looks at the conditional
\* headers.
renderOpenedProducerFirst(f, m, r, cached, h) ==
    LET made(mp) ==
            IF cached
            THEN Rendered(f, setLastModified(mp.code, cached), mp.headers, "empty",
                          [OpenedWorld EXCEPT !.producer = mp.producer])
            ELSE renderProducer(f, m, mp)
    IN  made(makeProducer(h, r, f.size, f.type, f.encoding))

\* File.render_GET once the file is open: a cache hit reported by
\* setLastModified returns '' at once, otherwise the producer is made.
renderOpened(f, m, r, cached, h) ==
    IF cached
    THEN Rendered(f, setLastModified(0, cached), h, "empty", OpenedWorld)
    ELSE renderProducer(f, m, makeProducer(h, r, f.size, f.type, f.encoding))

\* A render_GET that answers 403 to every failure to open the file.
renderFileForbidsEveryError(f, m, r, cached, h) ==
    IF f.openError # "none"
    THEN Rendered(f, FORBIDDEN, h, "forbiddenPage", NoWorld)
    ELSE renderOpened(f, m, r, cached, h)

\* File.render_GET for a concrete file, Accept-Ranges already set: open
\* the file; IOError with EACCES renders ForbiddenResource, any other
\* IOError is raised again.
renderFile(f, m, r, cached, h) ==
    IF f.openError = "EACCES"
    THEN Rendered(f, FORBIDDEN, h, "forbiddenPage", NoWorld)
    ELSE IF f.openError # "none"
    THEN Rendered(f, 0, h, "raised", raise(NoWorld, "IOError"))
    ELSE renderOpened(f, m, r, cached, h)

\* A render_GET that sets Accept-Ranges before it looks at the target.
renderGETAcceptRangesFirst(f, m, r, cached, uri, secure, host) ==
    LET accept == [NoHeaders EXCEPT !.acceptRanges = Some("bytes")]
        serve(f1) ==
            IF f.kind = "missing"
            THEN Rendered(f1, NOT_FOUND, accept, "notFoundPage", NoWorld)
            ELSE IF f.kind = "dir"
            THEN Rendered(f1, FOUND,
                          [accept EXCEPT !.location =
                                        Some(addSlash(uri, secure, host))],
                          "redirectPage", NoWorld)
            ELSE renderFile(f1, m, r, cached, accept)
        typed(te) == serve([f EXCEPT !.type = te.type, !.encoding = te.encoding])
    IN  typed(IF f.type = None THEN getTypeAndEncoding(f.name, f.defaultType)
              ELSE [type |-> f.type, encoding |-> f.encoding])

\* File.render_GET (and render_HEAD, the same function) on File f for a
\* request with method m, Range header r, the given URI and scheme, whose
\* conditional headers make setLastModified report a cache hit iff cached.
renderGET(f, m, r, cached, uri, secure, host) ==
    LET accept == [NoHeaders EXCEPT !.acceptRanges = Some("bytes")]
        serve(f1) ==
            IF f.kind = "missing"
            THEN Rendered(f1, NOT_FOUND, NoHeaders, "notFoundPage", NoWorld)
            ELSE IF f.kind = "dir"
            THEN Rendered(f1, FOUND,
                          [NoHeaders EXCEPT !.location =
                                        Some(addSlash(uri, secure, host))],
                          "redirectPage", NoWorld)
            ELSE renderFile(f1, m, r, cached, accept)
        typed(te) == serve([f EXCEPT !.type = te.type, !.encoding = te.encoding])
    IN  typed(IF f.type = None THEN getTypeAndEncoding(f.name, f.defaultType)
              ELSE [type |-> f.type, encoding |-> f.encoding])

(* ------------------------------ getChild ------------------------------- *)
DotDot == <<".", ".">>
Sep == "/"

\* The names of the served directory's entries and what each one is.
NameIndexHtml == <<"i", "n", "d", "e", "x", ".", "h", "t", "m", "l">>
NameIndexRpy == <<"i", "n", "d", "e", "x", ".", "r", "p", "y">>
NameA == <<"a">>
NameARpy == <<"a", ".", "R", "P", "Y">>
NameAX == <<"a", ".", "x">>
NameADotsB == <<"a", ".", ".", "b">>
NameB == <<"b">>
NameBA == <<"b", "/", "a">>
ExtRpy == <<".", "r", "p", "y">>
ExtRPY == <<".", "R", "P", "Y">>
ExtX == <<".", "x">>

\* File.indexNames
indexNames ==
    <<<<"i", "n", "d", "e", "x">>, NameIndexHtml,
      <<"i", "n", "d", "e", "x", ".", "h", "t", "m">>, NameIndexRpy>>

\* FilePath.exists() of the path that names `name` under directory f: an
\* entry of f, the parent directory, or the entry a of the subdirectory b
exists(f, name) ==
    \/ name \in f.children
    \/ name = DotDot
    \/ name = NameBA /\ NameB \in f.children

\* FilePath.child(path): InsecurePath for a segment that is '..' or holds a
\* directory separator, the child path otherwise
child(f, path) ==
    IF path = DotDot \/ \E i \in 1..Len(path) : path[i] = Sep
    THEN [insecure |-> TRUE, path |-> <<>>]
    ELSE [insecure |-> FALSE, path |-> path]

\* FilePath.childSearchPreauth(*names): the first of the names, in the
\* order given, that exists in the directory; None if none does
RECURSIVE childSearchPreauth(_, _)
childSearchPreauth(f, names) ==
    IF names = <<>> THEN None
    ELSE IF exists(f, Head(names)) THEN Some(Head(names))
    ELSE childSearchPreauth(f, Tail(names))

\* FilePath.siblingExtensionSearch(*exts): path + ext for the first ext, in
\* the order given, for which that exists; None if there is none
RECURSIVE siblingExtensionSearch(_, _, _)
siblingExtensionSearch(f, path, exts) ==
    IF exts = <<>> THEN None
    ELSE IF exists(f, path \o Head(exts)) THEN Some(path \o Head(exts))
    ELSE siblingExtensionSearch(f, path, Tail(exts))

\* What getChild returns.  registry and childNotFound name the object the
\* attribute refers to; shared holds the attributes of a child File that
\* refer to the very object the parent's attribute refers to, not to a copy
\* of it; appends counts what a caller appended to the child's lists.
NoChild ==
    [kind |-> "none", path |-> <<>>, dirs |-> None, ignoredExts |-> <<>>,
     processors |-> {}, indexNames |-> <<>>, defaultType |-> DefaultType,
     registry |-> "none", childNotFound |-> "none", shared |-> {},
     appends |-> 0]
\* self.childNotFound
childNotFound(f) ==
    [NoChild EXCEPT !.kind = "childNotFound", !.childNotFound = f.childNotFound]

\* python's sorted() on names: ascending by character code
CharOrder ==
    <<".", "/", "P", "R", "Y", "a", "b", "d", "e", "h", "i", "l", "m", "n",
      "p", "r", "t", "x", "y">>
CharCode(c) == CHOOSE i \in 1..Len(CharOrder) : CharOrder[i] = c
RECURSIVE NameLess(_, _)
NameLess(s, t) ==
    IF t = <<>> THEN FALSE
    ELSE IF s = <<>> THEN TRUE
    ELSE IF Head(s) # Head(t) THEN CharCode(Head(s)) < CharCode(Head(t))
    ELSE NameLess(Tail(s), Tail(t))
RECURSIVE sorted(_)
sorted(names) ==
    IF names = {} THEN <<>>
    ELSE LET least == CHOOSE n \in names : \A o \in names \ {n} : NameLess(n, o)
         IN  <<least>> \o sorted(names \ {least})

\* File.listNames
listNames(f) == IF f.kind # "dir" THEN <<>> ELSE sorted(f.children)

\* DirectoryLister.__init__
DirectoryLister(dirs, defaultType) ==
    [NoChild EXCEPT !.kind = "DirectoryLister", !.dirs = dirs,
                    !.defaultType = defaultType]

\* File.directoryListing
directoryListing(f) == DirectoryLister(Some(listNames(f)), f.defaultType)

\* File.ignoreExt, on the list self.ignoredExts
ignoreExt(ignoredExts, ext) == Append(ignoredExts, ext)

\* A createSimilarFile that hands the parent's own lists to the child.
createSimilarFileSharingLists(f, path) ==
    [NoChild EXCEPT !.kind = "File", !.path = path,
                    !.defaultType = f.defaultType,
                    !.ignoredExts = f.ignoredExts,
                    !.registry = f.registry,
                    !.processors = f.processors,
                    !.indexNames = f.indexNames,
                    !.childNotFound = f.childNotFound,
                    !.shared = {"ignoredExts", "registry", "processors",
                                "indexNames", "childNotFound"}]

\* File.createSimilarFile: the constructor copies the ignored extensions
\* (list(ignoredExts)) and keeps the registry it is given, a Registry being
\* true; the index names are a slice copy; the processors and the not-found
\* resource are the parent's own objects
createSimilarFile(f, path) ==
    [NoChild EXCEPT !.kind = "File", !.path = path,
                    !.defaultType = f.defaultType,
                    !.ignoredExts = f.ignoredExts,
                    !.registry = f.registry,
                    !.processors = f.processors,
                    !.indexNames = f.indexNames,
                    !.childNotFound = f.childNotFound,
                    !.shared = {"registry", "processors", "childNotFound"}]

\* processors.get(ext), through InsensitiveDict on win32
processorFor(f, ext, platformType) ==
    IF platformType = "win32"
    THEN \E k \in f.processors : Lower(k) = Lower(ext)
    ELSE ext \in f.processors

\* The end of File.getChild: the processor's resource for a path whose
\* extension has a processor, a File like this one otherwise
resolved(f, fpath, platformType) ==
    IF processorFor(f, splitext(fpath)[2], platformType)
    THEN [NoChild EXCEPT !.kind = "processor", !.path = fpath,
                         !.registry = f.registry]
    ELSE createSimilarFile(f, fpath)

\* A getChild that looks for a sibling before it looks at the path itself.
existingSiblingFirst(f, fpath, platformType) ==
    LET found(sibling) ==
            IF sibling # None THEN resolved(f, sibling[1], platformType)
            ELSE IF exists(f, fpath) THEN resolved(f, fpath, platformType)
            ELSE childNotFound(f)
    IN  found(siblingExtensionSearch(f, fpath, f.ignoredExts))

\* A getChild that looks up the processor of the path as it was asked for.
existingProcessorOfRequest(f, fpath, platformType) ==
    LET found(sibling) ==
            IF sibling = None THEN childNotFound(f)
            ELSE [resolved(f, fpath, platformType) EXCEPT !.path = sibling[1]]
    IN  IF exists(f, fpath) THEN resolved(f, fpath, platformType)
        ELSE found(siblingExtensionSearch(f, fpath, f.ignoredExts))

\* File.getChild from the existence test on
existing(f, fpath, platformType) ==
    LET found(sibling) ==
            IF sibling = None THEN childNotFound(f)
            ELSE resolved(f, sibling[1], platformType)
    IN  IF exists(f, fpath) THEN resolved(f, fpath, platformType)
        ELSE found(siblingExtensionSearch(f, fpath, f.ignoredExts))

\* A getChild that does not catch InsecurePath.
getChildTrustsPath(f, path, platformType) ==
    LET index(fpath) ==
            IF fpath = None THEN directoryListing(f)
            ELSE existing(f, fpath[1], platformType)
    IN  IF f.kind # "dir" THEN childNotFound(f)
        ELSE IF path # <<>> THEN existing(f, path, platformType)
        ELSE index(childSearchPreauth(f, f.indexNames))

\* A getChild that answers not-found when no index file exists.
getChildWithoutListing(f, path, platformType) ==
    LET secure(c) ==
            IF c.insecure THEN childNotFound(f)
            ELSE existing(f, c.path, platformType)
        index(fpath) ==
            IF fpath = None THEN childNotFound(f)
            ELSE existing(f, fpath[1], platformType)
    IN  IF f.kind # "dir" THEN childNotFound(f)
        ELSE IF path # <<>> THEN secure(child(f, path))
        ELSE index(childSearchPreauth(f, f.indexNames))

\* File.getChild
getChild(f, path, platformType) ==
    LET secure(c) ==
            IF c.insecure THEN childNotFound(f)
            ELSE existing(f, c.path, platformType)
        index(fpath) ==
            IF fpath = None THEN directoryListing(f)
            ELSE existing(f, fpath[1], platformType)
    IN  IF f.kind # "dir" THEN childNotFound(f)
        ELSE IF path # <<>> THEN secure(child(f, path))
        ELSE index(childSearchPreauth(f, f.indexNames))

(* --------------------------- DirectoryLister --------------------------- *)
\* A file size is an unbounded integer in the code.  Here it is the sequence
\* of its digits in base 1024, least significant first and without leading
\* zeros, so that sizes of 1024^4 and more can be written.
RECURSIVE BigNat(_)
BigNat(n) == IF n < 1024 THEN <<n>> ELSE <<n % 1024>> \o BigNat(n \div 1024)
RECURSIVE BigValue(_)
BigValue(d) == IF Len(d) = 1 THEN d[1] ELSE d[1] + 1024 * BigValue(Tail(d))
\* size < 1024 ** k
BigBelow(size, k) == Len(size) <= k
\* '%i' % (size / (1024 ** k)): the division is true division and %i
\* truncates; the quotient is exact for every size below 2^53
BigQuotient(size, k) ==
    IF Len(size) <= k THEN 0 ELSE BigValue(SubSeq(size, k + 1, Len(size)))

\* A formatFileSize whose thresholds are inclusive.
formatFileSizeInclusive(size) ==
    IF BigBelow(size, 1) \/ size = BigNat(1024)
    THEN FormatNat(BigValue(size)) \o <<"B">>
    ELSE IF BigBelow(size, 2) \/ size = BigNat(1024 * 1024)
    THEN FormatNat(BigValue(size) \div 1024) \o <<"K">>
    ELSE IF BigBelow(size, 3) THEN FormatNat(BigQuotient(size, 2)) \o <<"M">>
    ELSE FormatNat(BigQuotient(size, 3)) \o <<"G">>

\* formatFileSize
formatFileSize(size) ==
    IF BigBelow(size, 1) THEN FormatNat(BigQuotient(size, 0)) \o <<"B">>
    ELSE IF BigBelow(size, 2) THEN FormatNat(BigQuotient(size, 1)) \o <<"K">>
    ELSE IF BigBelow(size, 3) THEN FormatNat(BigQuotient(size, 2)) \o <<"M">>
    ELSE FormatNat(BigQuotient(size, 3)) \o <<"G">>

\* cgi.escape
escape(s) ==
    Flatten([i \in 1..Len(s) |->
                IF s[i] = "&" THEN <<"&", "a", "m", "p", ";">>
                ELSE IF s[i] = "<" THEN <<"&", "l", "t", ";">>
                ELSE IF s[i] = ">" THEN <<"&", "g", "t", ";">>
                ELSE <<s[i]>>])

\* urllib.quote: the characters of the served names that are not safe
quote(s) ==
    Flatten([i \in 1..Len(s) |->
                IF s[i] = "&" THEN <<"%", "2", "6">>
                ELSE IF s[i] = " " THEN <<"%", "2", "0">>
                ELSE IF s[i] = "?" THEN <<"%", "3", "F">>
                ELSE <<s[i]>>])

\* urllib.unquote, for the escapes quote makes
RECURSIVE unquote(_)
unquote(s) ==
    IF Len(s) < 3 \/ Head(s) # "%" THEN
        (IF s = <<>> THEN <<>> ELSE <<Head(s)>> \o unquote(Tail(s)))
    ELSE IF SubSeq(s, 2, 3) = <<"2", "6">> THEN <<"&">> \o unquote(SubSeq(s, 4, Len(s)))
    ELSE IF SubSeq(s, 2, 3) = <<"2", "0">> THEN <<" ">> \o unquote(SubSeq(s, 4, Len(s)))
    ELSE IF SubSeq(s, 2, 3) = <<"3", "F">> THEN <<"?">> \o unquote(SubSeq(s, 4, Len(s)))
    ELSE <<"%">> \o unquote(Tail(s))

\* What each entry of the served directory is: b is a directory, the others
\* are files of these sizes, small ones in some directories and large ones
\* in others (1024^4 - 1, 1024^4 and 2 * 1024^4 + 5 among them)
entrySize(f, name) ==
    IF f.sizes = "small"
    THEN (IF name = NameA THEN BigNat(0)
          ELSE IF name = NameAX THEN BigNat(1023)
          ELSE IF name = NameARpy THEN BigNat(1024)
          ELSE IF name = NameADotsB THEN BigNat(1536)
          ELSE IF name = NameIndexHtml THEN BigNat(1048576)
          ELSE BigNat(1073741824))
    ELSE (IF name = NameA THEN BigNat(1048575)
          ELSE IF name = NameAX THEN BigNat(1073741823)
          ELSE IF name = NameARpy THEN <<1023, 1023, 1023, 1023>>
          ELSE IF name = NameADotsB THEN <<0, 0, 0, 0, 1>>
          ELSE IF name = NameIndexHtml THEN <<5, 0, 0, 0, 2>>
          ELSE <<0, 0, 512, 1023>>)

\* FilePath.isdir() of an entry: False once the entry is gone
isdir(f, name, gone) == name = NameB /\ name \in f.children \ gone

\* FilePath.getsize() of an entry; ok = FALSE is OSError, the entry gone
getsize(f, name, gone) ==
    IF name \in f.children \ gone THEN [ok |-> TRUE, size |-> entrySize(f, name)]
    ELSE [ok |-> FALSE, size |-> BigNat(0)]

directoryRow(name) ==
    [text |-> escape(name) \o <<"/">>, href |-> quote(name) \o <<"/">>,
     size |-> <<>>, type |-> <<"[", "Directory", "]">>, encoding |-> <<>>]

fileRow(name, te, size) ==
    [text |-> escape(name), href |-> quote(name),
     type |-> <<"[", te.type[1], "]">>,
     encoding |-> IF te.encoding # None THEN <<"[", te.encoding[1], "]">> ELSE <<>>,
     size |-> formatFileSize(size)]

\* A _getFilesAndDirectories that lets OSError from getsize() escape.
RECURSIVE getFilesAndDirectoriesRaising(_, _, _, _)
getFilesAndDirectoriesRaising(lister, f, directory, gone) ==
    IF directory = <<>> THEN [raised |-> FALSE, dirs |-> <<>>, files |-> <<>>]
    ELSE LET rest(r, name, st) ==
                 IF isdir(f, name, gone)
                 THEN [r EXCEPT !.dirs = <<directoryRow(name)>> \o @]
                 ELSE IF ~st.ok THEN [r EXCEPT !.raised = TRUE]
                 ELSE [r EXCEPT !.files =
                          <<fileRow(name, getTypeAndEncoding(name, lister.defaultType),
                                    st.size)>> \o @]
         IN  rest(getFilesAndDirectoriesRaising(lister, f, Tail(directory), gone),
                  Head(directory), getsize(f, Head(directory), gone))

\* DirectoryLister._getFilesAndDirectories
RECURSIVE getFilesAndDirectories(_, _, _, _)
getFilesAndDirectories(lister, f, directory, gone) ==
    IF directory = <<>> THEN [raised |-> FALSE, dirs |-> <<>>, files |-> <<>>]
    ELSE LET rest(r, name, st) ==
                 IF isdir(f, name, gone)
                 THEN [r EXCEPT !.dirs = <<directoryRow(name)>> \o @]
                 ELSE IF ~st.ok THEN r
                 ELSE [r EXCEPT !.files =
                          <<fileRow(name, getTypeAndEncoding(name, lister.defaultType),
                                    st.size)>> \o @]
         IN  rest(getFilesAndDirectories(lister, f, Tail(directory), gone),
                  Head(directory), getsize(f, Head(directory), gone))

\* DirectoryLister._buildTableContent: the rows, classes odd and even in turn
buildTableContent(elements) ==
    [i \in 1..Len(elements) |->
        [class |-> IF i % 2 = 1 THEN "odd" ELSE "even",
         text |-> elements[i].text, href |-> elements[i].href,
         size |-> elements[i].size, type |-> elements[i].type,
         encoding |-> elements[i].encoding]]

\* A render that lists the entries as they come, directories among files.
listerRenderInOrder(lister, f, uri, gone) ==
    LET one(name) == getFilesAndDirectories(lister, f, <<name>>, gone)
        each(directory) ==
            Flatten([i \in 1..Len(directory) |->
                        one(directory[i]).dirs \o one(directory[i]).files])
        page(directory) ==
            [raised |-> FALSE,
             header |-> escape(unquote(uri)),
             tableContent |-> buildTableContent(each(directory))]
    IN  page(IF lister.dirs = None THEN sorted(f.children) ELSE lister.dirs[1])

\* DirectoryLister.render for the directory f; gone are the entries that
\* vanish between the enumeration and their stat
listerRender(lister, f, uri, gone) ==
    LET page(fd) ==
            [raised |-> fd.raised,
             header |-> escape(unquote(uri)),
             tableContent |-> IF fd.raised THEN <<>>
                              ELSE buildTableContent(fd.dirs \o fd.files)]
    IN  page(getFilesAndDirectories(
                 lister, f, IF lister.dirs = None THEN sorted(f.children)
                            ELSE lister.dirs[1], gone))

(* ------------------------------- inputs -------------------------------- *)
Methods == {"GET", "HEAD"}

NameTxt == <<"a", ".", "t", "x", "t">>
NameTxtGz == <<"a", ".", "T", "X", "T", ".", "G", "Z">>
NamePlain == <<"a">>
NameTxtGzGz == <<"a", ".", "t", "x", "t", ".", "g", "z", ".", "g", "z">>
Names == {NameTxt, NameTxtGz, NamePlain}

Uris == {<<"/", "d">>, <<"/", "d", "?", "q">>, <<"/", "d", "?", "q", "?", "r">>}
Host == <<"h">>

FormatBound(b) == IF b = None THEN <<>> ELSE FormatInt(b[1])
FormatRange(start, end) == FormatBound(start) \o <<"-">> \o FormatBound(end)

StartBounds == {None, Some(0), Some(1)}
EndBounds == {None, Some(0), Some(1), Some(MaxFileSize + 1)}

\* Entries of a Range header: every start/end combination (both omitted and
\* start > end included), an entry without '-', a non-numeric bound, an
\* empty entry, and an entry with surrounding whitespace.  RangeHeaders adds
\* three entries at once, a unit other than bytes, a unit with whitespace
\* around it, a header without '=', and a suffix of negative length (--1).
RangeEntries ==
    {FormatRange(s, e) : s \in StartBounds, e \in EndBounds}
    \cup {<<"x">>, <<"0", "-", "x">>, <<>>, <<" ", "0", "-", "0", " ">>}

BytesHeader(entries) == BytesUnit \o <<"=">> \o Join(entries, ",")

RangeHeaders ==
    {None}
    \cup {Some(BytesHeader(<<e>>)) : e \in RangeEntries}
    \cup {Some(BytesHeader(<<e1, e2>>)) : e1 \in RangeEntries, e2 \in RangeEntries}
    \cup {Some(BytesHeader(<<<<"0", "-", "0">>, <<"1", "-", "1">>, <<"0", "-">>>>)),
          Some(<<"i", "t", "e", "m", "s", "=", "0", "-", "0">>),
          Some(<<" ">> \o BytesUnit \o <<" ", "=", "0", "-", "0">>),
          Some(BytesUnit),
          Some(BytesHeader(<<<<"-", "-", "1">>>>))}

\* File(path): the default type is 'text/html', the registry is the File's
\* own Registry(), the not-found resource is the one of the class; depth
\* counts the directories between the served root and this File
NewFile(kind, size, name, openError) ==
    [kind |-> kind, size |-> size, name |-> name, openError |-> openError,
     type |-> None, encoding |-> None,
     children |-> {}, indexNames |-> indexNames, ignoredExts |-> <<>>,
     processors |-> {}, sizes |-> "small",
     defaultType |-> DefaultType, registry |-> "own",
     childNotFound |-> "NoResource", depth |-> 0]

Files ==
    {NewFile("file", s, n, "none") : s \in 0..MaxFileSize, n \in Names}
    \cup {NewFile("file", 1, NameTxt, e) : e \in {"EACCES", "ENOENT"}}
    \cup {NewFile("file", 1, NameTxtGzGz, "none")}
    \cup {NewFile(k, 0, NamePlain, "none") : k \in {"missing", "dir"}}

\* A default type, other than 'text/html', that a File is constructed with
OtherType == "application/octet-stream"
\* The directories served: every set of entries, with or without ignored
\* extensions (in both orders) and a processor for .rpy
EntryNames ==
    {NameIndexHtml, NameIndexRpy, NameA, NameARpy, NameAX, NameADotsB, NameB}
IgnoredExts == {<<>>, <<ExtX, ExtRPY>>, <<ExtRPY, ExtX>>}
Processors == {{}, {ExtRpy}}
NewDirectory(children, ignoredExts, processors) ==
    [NewFile("dir", 0, NamePlain, "none") EXCEPT
         !.children = children, !.ignoredExts = ignoredExts,
         !.processors = processors]
Directories ==
    {NewDirectory(c, i, p) : c \in SUBSET EntryNames, i \in IgnoredExts,
                             p \in Processors}
    \cup {[NewDirectory(c, <<>>, {}) EXCEPT !.sizes = "large"] :
             c \in SUBSET EntryNames}
    \cup {[NewDirectory(c, <<ExtX, ExtRPY>>, {ExtRpy}) EXCEPT
                !.defaultType = OtherType, !.registry = "given",
                !.childNotFound = "custom"] : c \in SUBSET EntryNames}

\* The entries of the subdirectory b, at every depth
SubdirectoryEntries == {NameA, NameB}
\* What a caller appends to a child File's ignored extensions and index names
AddedExts == {<<".", "b", "a", "k">>}
AddedIndexNames == {NameA}

\* The path segments asked of getChild
Segments ==
    {<<>>, DotDot, NameBA, NameADotsB, NameA, NameARpy, NameAX, NameB,
     NameIndexRpy, <<"a", ".", ".">>}
PlatformTypes == {"posix", "win32"}

\* The dirs a caller gives a DirectoryLister: none, or up to MaxDirs of the
\* directory's entries in any order
ListerDirs(f) ==
    {None}
    \cup {Some(d) : d \in {q \in UNION {[1..n -> f.children] : n \in 1..MaxDirs} :
                              \A i, j \in DOMAIN q : i # j => q[i] # q[j]}}

\* The entries that may vanish while a listing is rendered
Vanishings(names) == {g \in SUBSET names : Cardinality(g) <= MaxVanished}
RECURSIVE Range(_)
Range(q) == IF q = <<>> THEN {} ELSE {Head(q)} \cup Range(Tail(q))

\* parsed is what _parseRangeHeader makes of the request's Range header
\* (ok = FALSE: it raises ValueError, or there is no header)
NoRequest ==
    [method |-> "none", range |-> None, cached |-> FALSE,
     uri |-> <<"/", "d">>, secure |-> FALSE,
     prepath |-> <<>>, platformType |-> "posix",
     parsed |-> [ok |-> FALSE, ranges |-> <<>>]]

(* ------------------------------- actions ------------------------------- *)
Init ==
    /\ file \in Files \cup Directories
    /\ request = NoRequest
    /\ code = 0
    /\ headers = NoHeaders
    /\ result = "none"
    /\ world = NoWorld
    /\ stack = <<>>
    /\ stops = 0
    /\ childResource = NoChild
    /\ listing = None

Running == world.raised = "none" /\ ~world.hung

\* The request is for a child of the File: the server asks getChild for it.
GetChild ==
    /\ result = "none"
    /\ childResource = NoChild
    /\ \E path \in Segments, platformType \in PlatformTypes :
          /\ childResource' = getChild(file, path, platformType)
          /\ request' = [NoRequest EXCEPT !.prepath = <<path>>,
                                           !.platformType = platformType]
    /\ UNCHANGED <<file, code, headers, result, world, stack, stops, listing>>

\* A caller calls ignoreExt on the File that getChild returned.  The File
\* getChild was called on sees the extension only if the two share the list.
ChildIgnoreExt ==
    /\ childResource.kind = "File"
    /\ childResource.appends < MaxAppends
    /\ \E ext \in AddedExts :
          /\ childResource' = [childResource EXCEPT
                                   !.ignoredExts = ignoreExt(@, ext),
                                   !.appends = @ + 1]
          /\ file' = IF "ignoredExts" \in childResource.shared
                     THEN [file EXCEPT !.ignoredExts = ignoreExt(@, ext)]
                     ELSE file
    /\ UNCHANGED <<request, code, headers, result, world, stack, stops, listing>>

\* A caller appends an index name to the indexNames of the File that
\* getChild returned.
ChildAppendIndexName ==
    /\ childResource.kind = "File"
    /\ childResource.appends < MaxAppends
    /\ \E name \in AddedIndexNames :
          /\ childResource' = [childResource EXCEPT
                                   !.indexNames = Append(@, name),
                                   !.appends = @ + 1]
          /\ file' = IF "indexNames" \in childResource.shared
                     THEN [file EXCEPT !.indexNames = Append(@, name)]
                     ELSE file
    /\ UNCHANGED <<request, code, headers, result, world, stack, stops, listing>>

\* The File that getChild returned for the subdirectory b serves the next
\* path segment: it is the File from now on.
Descend ==
    /\ childResource.kind = "File"
    /\ childResource.path = NameB
    /\ file.depth < MaxDescents
    /\ file' = [file EXCEPT !.name = NameB,
                            !.children = SubdirectoryEntries,
                            !.defaultType = childResource.defaultType,
                            !.ignoredExts = childResource.ignoredExts,
                            !.registry = childResource.registry,
                            !.processors = childResource.processors,
                            !.indexNames = childResource.indexNames,
                            !.childNotFound = childResource.childNotFound,
                            !.depth = @ + 1]
    /\ childResource' = NoChild
    /\ request' = NoRequest
    /\ UNCHANGED <<code, headers, result, world, stack, stops, listing>>

\* A caller makes a DirectoryLister for the directory (which uses neither
\* the ignored extensions nor the processors of a File).
NewDirectoryLister ==
    /\ result = "none"
    /\ childResource = NoChild
    /\ file.kind = "dir"
    /\ file.ignoredExts = <<>> /\ file.processors = {}
    /\ \E dirs \in ListerDirs(file) : childResource' = DirectoryLister(dirs, DefaultType)
    /\ UNCHANGED <<file, request, code, headers, result, world, stack, stops,
                   listing>>

\* The server renders the DirectoryLister.
ListerRender ==
    /\ childResource.kind = "DirectoryLister"
    /\ listing = None
    /\ \E gone \in Vanishings(IF childResource.dirs = None THEN file.children
                               ELSE Range(childResource.dirs[1])) :
          listing' = Some([page |-> listerRender(childResource, file,
                                                 request.uri, gone),
                           gone |-> gone])
    /\ headers' = [headers EXCEPT !.contentType = Some("text/html; charset=utf-8")]
    /\ UNCHANGED <<file, request, code, result, world, stack, stops, childResource>>

\* The server renders one request on the File.
Render ==
    /\ result = "none"
    /\ childResource = NoChild
    /\ \E m \in Methods,
          r \in (IF file.kind = "file" THEN RangeHeaders ELSE {None}),
          cached \in (IF file.kind = "file" THEN BOOLEAN ELSE {FALSE}),
          uri \in (IF file.kind = "dir" THEN Uris ELSE {<<"/", "d">>}),
          secure \in (IF file.kind = "dir" THEN BOOLEAN ELSE {FALSE}) :
          LET out == renderGET(file, m, r, cached, uri, secure, Host)
          IN  /\ request' = [NoRequest EXCEPT
                                 !.method = m, !.range = r, !.cached = cached,
                                 !.uri = uri, !.secure = secure,
                                 !.parsed = IF r = None THEN @
                                            ELSE parseRangeHeader(r[1])]
              /\ file' = out.file
              /\ code' = out.code
              /\ headers' = out.headers
              /\ result' = out.result
              /\ world' = out.world
    /\ UNCHANGED <<stack, stops, childResource, listing>>

\* The transport, ready for more bytes, calls resumeProducing.
ResumeProducing ==
    /\ Running
    /\ world.registerCalls > 0
    /\ stack = <<>>
    /\ LET r == resumeProducing(world, file.size)
       IN  /\ world' = r.w
           /\ stack' = IF r.suspended THEN <<r.frame>> ELSE <<>>
    /\ UNCHANGED <<file, request, code, headers, result, stops, childResource,
                   listing>>

\* request.write calls resumeProducing again before it returns.
ReenterResumeProducing ==
    /\ Running
    /\ world.registered
    /\ stack # <<>>
    /\ Len(stack) < MaxDepth
    /\ LET r == resumeProducing(world, file.size)
       IN  /\ world' = r.w
           /\ stack' = IF r.w.raised # "none" THEN <<>>
                       ELSE IF r.suspended THEN Append(stack, r.frame)
                       ELSE stack
    /\ UNCHANGED <<file, request, code, headers, result, stops, childResource,
                   listing>>

\* The innermost request.write returns and its resumeProducing runs on.
WriteReturns ==
    /\ Running
    /\ stack # <<>>
    /\ LET w == afterWrite(world, stack[Len(stack)])
       IN  /\ world' = w
           /\ stack' = IF w.raised # "none" THEN <<>>
                       ELSE SubSeq(stack, 1, Len(stack) - 1)
    /\ UNCHANGED <<file, request, code, headers, result, stops, childResource,
                   listing>>

\* The transport lost its consumer and calls stopProducing, between two
\* resumeProducing calls or from inside a request.write.
StopProducing ==
    /\ Running
    /\ world.registerCalls > 0
    /\ stops < MaxStops
    /\ world' = stopProducing(world)
    /\ stops' = stops + 1
    /\ UNCHANGED <<file, request, code, headers, result, stack, childResource,
                   listing>>

Next ==
    \/ GetChild
    \/ ChildIgnoreExt
    \/ ChildAppendIndexName
    \/ Descend
    \/ NewDirectoryLister
    \/ ListerRender
    \/ Render
    \/ ResumeProducing
    \/ ReenterResumeProducing
    \/ WriteReturns
    \/ StopProducing

Spec == Init /\ [][Next]_vars


(* ----------------------------- properties ------------------------------ *)
\* render_GET got as far as makeProducer
MadeProducer ==
    /\ result # "none"
    /\ file.kind = "file"
    /\ file.openError = "none"
    /\ ~request.cached
IsGet == request.method = "GET"
Parsed == request.parsed
ParsesToOne == request.range # None /\ Parsed.ok /\ Len(Parsed.ranges) = 1
ParsesToMany == request.range # None /\ Parsed.ok /\ Len(Parsed.ranges) >= 2
Resolved(i) ==
    rangeToOffsetAndSize(Parsed.ranges[i][1], Parsed.ranges[i][2], file.size)
\* A parsed range overlaps a file of the given size: the file has a byte at
\* or after start, or the suffix asked for is not empty
RangeOverlaps(r, size) ==
    /\ size > 0
    /\ IF r[1] = None THEN r[2][1] > 0 ELSE r[1][1] < size
Overlaps(i) == RangeOverlaps(Parsed.ranges[i], file.size)
Body == Flatten(world.written)
\* The file's bytes at positions a..b
FileSlice(a, b) == [i \in 1..(b - a + 1) |-> <<"file", a + i - 1, 0>>]
IsPrefix(s, t) == Len(s) <= Len(t) /\ SubSeq(t, 1, Len(s)) = s
\* Nothing more will be written: finish was called, or the producer raised
\* or never returns
ResponseOver == world.finishCalls > 0 \/ world.raised # "none" \/ world.hung
Str_bytes_0_99 == BytesHeader(<<<<"0", "-", "9", "9">>>>)
Str_bytes_suffix_50 == BytesHeader(<<<<"-", "5", "0">>>>)

\* C1: a GET whose Range header parses to one range that overlaps the file
\* (size >= 1) gets status 206, Content-Range bytes offset-(offset+size-1)/S
\* for the resolved (offset, size), and Content-Length size; bytes=0-99 on a
\* 500-byte file gives 206 and bytes 0-99/500, bytes=-50 gives 450-499/500.
C1_SingleRangeResponse ==
    /\ (IsGet /\ MadeProducer /\ ParsesToOne /\ file.size >= 1 /\ Overlaps(1))
       => /\ code = PARTIAL_CONTENT
          /\ headers.contentRange =
                 Some([kind |-> "range", first |-> Resolved(1)[1],
                       last |-> Resolved(1)[1] + Resolved(1)[2] - 1,
                       total |-> file.size])
          /\ headers.contentLength = Some(Resolved(1)[2])
    /\ LET mp == makeProducer(NoHeaders, Some(Str_bytes_0_99), 500, None, None)
       IN  /\ mp.code = 206
           /\ mp.headers.contentRange =
                  Some([kind |-> "range", first |-> 0, last |-> 99, total |-> 500])
           /\ mp.headers.contentLength = Some(100)
    /\ LET mp == makeProducer(NoHeaders, Some(Str_bytes_suffix_50), 500, None, None)
       IN  /\ mp.code = 206
           /\ mp.headers.contentRange =
                  Some([kind |-> "range", first |-> 450, last |-> 499, total |-> 500])
           /\ mp.headers.contentLength = Some(50)

\* C1 witness: a started GET for one overlapping range, answered 206
C1_Witness ==
    /\ IsGet /\ MadeProducer /\ ParsesToOne /\ file.size >= 1 /\ Overlaps(1)
    /\ Resolved(1) = <<1, 1>>
    /\ code = PARTIAL_CONTENT
    /\ result = "NOT_DONE_YET"

\* What a multipart body must be for its own separators: each separator
\* announcing Content-range a-b followed by the file's bytes a..b
RECURSIVE BodyForSeparators(_)
BodyForSeparators(rangeInfo) ==
    IF rangeInfo = <<>> THEN <<>>
    ELSE LET sep == Head(rangeInfo)[1]
         IN  sep
             \o (IF sep[1][1] = "sep" THEN FileSlice(sep[1][2], sep[1][3]) ELSE <<>>)
             \o BodyForSeparators(Tail(rangeInfo))

\* C2: for every Content-Range a-b/S emitted in a 206 response (the header
\* of a single-range response, the part header of a multipart one) the
\* producer writes exactly the b - a + 1 file bytes at positions a..b, for
\* every parsed range, suffix ranges of any length included.
C2_ContentRangeRoundTrip ==
    (IsGet /\ MadeProducer /\ code = PARTIAL_CONTENT)
    => LET expected ==
               IF world.producer.kind = "SingleRange"
               THEN FileSlice(headers.contentRange[1].first,
                              headers.contentRange[1].last)
               ELSE BodyForSeparators(world.producer.rangeInfo)
       IN  /\ IsPrefix(Body, expected)
           /\ ResponseOver => Body = expected

\* C3 as claimed: a GET whose one range does not overlap the file gets 416,
\* Content-Range bytes */S, no body byte, and no producer is ever started.
C3_UnsatisfiableNeverStarts ==
    (IsGet /\ MadeProducer /\ ParsesToOne /\ Resolved(1) = <<0, 0>>)
    => /\ code = REQUESTED_RANGE_NOT_SATISFIABLE
       /\ headers.contentRange = Some(UnsatisfiedRange(file.size))
       /\ Body = <<>>
       /\ world.registerCalls = 0

\* C3 amended: a GET whose one range resolves to the no-overlap sentinel
\* (0, 0) gets 416, Content-Range bytes */S and Content-Length 0; a
\* SingleRangeStaticProducer of offset 0 and size 0 is started (registered
\* once), never calls request.write, and finishes the response at most once.
C3_UnsatisfiableEmptyBody ==
    (IsGet /\ MadeProducer /\ ParsesToOne /\ Resolved(1) = <<0, 0>>)
    => /\ code = REQUESTED_RANGE_NOT_SATISFIABLE
       /\ headers.contentRange = Some(UnsatisfiedRange(file.size))
       /\ headers.contentLength = Some(0)
       /\ world.written = <<>>
       /\ world.producer.kind = "SingleRange"
       /\ world.producer.offset = 0 /\ world.producer.size = 0
       /\ world.registerCalls = 1
       /\ world.finishCalls <= 1
       /\ world.raised = "none" /\ ~world.hung

\* C3 witness: the zero-size producer of a 416 response has finished
C3_Witness ==
    /\ IsGet /\ MadeProducer /\ ParsesToOne /\ Resolved(1) = <<0, 0>>
    /\ file.size = 1
    /\ code = REQUESTED_RANGE_NOT_SATISFIABLE
    /\ world.finishCalls = 1
    /\ world.written = <<>>

NoneOverlaps ==
    \A i \in 1..Len(Parsed.ranges) : ~Overlaps(i) /\ Resolved(i) = <<0, 0>>

\* C4: a GET whose Range header parses to two or more ranges none of which
\* overlaps the file gets 416, Content-Length 0, Content-Range bytes */S, no
\* body byte, and render_GET (producer.start() included) does not raise.
C4_MultipleUnsatisfiable ==
    (IsGet /\ MadeProducer /\ ParsesToMany /\ NoneOverlaps)
    => /\ code = REQUESTED_RANGE_NOT_SATISFIABLE
       /\ headers.contentLength = Some(0)
       /\ headers.contentRange = Some(UnsatisfiedRange(file.size))
       /\ Body = <<>>
       /\ result # "raised"
       /\ world.raised = "none"

AnyOverlaps == \E i \in 1..Len(Parsed.ranges) : Overlaps(i)

\* The multipart body for the parsed ranges: for each overlapping range in
\* header order its separator and its bytes, then the closing boundary
RECURSIVE MultipartBody(_)
MultipartBody(i) ==
    IF i > Len(Parsed.ranges) THEN [k \in 1..FinalLen |-> <<"end", 0, 0>>]
    ELSE (IF ~Overlaps(i) THEN <<>>
          ELSE [k \in 1..SepLen |->
                   <<"sep", Resolved(i)[1], Resolved(i)[1] + Resolved(i)[2] - 1>>]
               \o FileSlice(Resolved(i)[1], Resolved(i)[1] + Resolved(i)[2] - 1))
         \o MultipartBody(i + 1)

\* C5: a GET whose Range header parses to two or more ranges, at least one
\* overlapping the file, gets 206 with Content-Type multipart/byteranges,
\* and the body is, for each overlapping range in header order (the others
\* omitted, none merged), its separator and exactly its bytes, then the
\* closing boundary, after which finish is called.
C5_MultipartBody ==
    (IsGet /\ MadeProducer /\ ParsesToMany /\ AnyOverlaps)
    => /\ code = PARTIAL_CONTENT
       /\ headers.contentType = Some(MultipartType)
       /\ IsPrefix(Body, MultipartBody(1))
       /\ ResponseOver => Body = MultipartBody(1)

\* Headers that fail to parse, one for each way of failing: unsupported
\* unit, missing '=', entry without '-', both bounds empty, non-numeric
\* bound, start > end, and headers of two entries only one of which is bad
MalformedHeaders ==
    {<<"i", "t", "e", "m", "s", "=", "0", "-", "0">>,
     BytesUnit,
     BytesHeader(<<<<"x">>>>),
     BytesHeader(<<<<"-">>>>),
     BytesHeader(<<<<"0", "-", "x">>>>),
     BytesHeader(<<<<"1", "-", "0">>>>),
     BytesHeader(<<<<"0", "-", "0">>, <<"x">>>>),
     BytesHeader(<<<<"-">>, <<"0", "-">>>>),
     BytesHeader(<<<<"0", "-", "1">>, <<"1", "-", "0">>>>)}

WholeFileResponse ==
    /\ code = OK
    /\ headers.contentLength = Some(file.size)
    /\ headers.contentRange = None
    /\ world.producer.kind = "NoRange"
    /\ result = "NOT_DONE_YET"
    /\ world.raised = "none" /\ ~world.hung
    /\ IsPrefix(Body, FileSlice(0, file.size - 1))
    /\ world.finishCalls <= 1
    /\ world.finishCalls = 1 => Body = FileSlice(0, file.size - 1)

\* C6: whenever the Range header fails to parse (also when only one entry
\* of several is invalid) the response is the whole-file one: 200,
\* Content-Length the file size, the full body from NoRangeStaticProducer,
\* and nothing raised.
C6_MalformedRangeWholeFile ==
    (IsGet /\ MadeProducer /\ request.range # None
     /\ (~Parsed.ok \/ request.range[1] \in MalformedHeaders))
    => WholeFileResponse

\* C6 witness: a header with one valid and one invalid entry, fully served
C6_Witness ==
    /\ IsGet /\ MadeProducer
    /\ request.range = Some(BytesHeader(<<<<"0", "-", "1">>, <<"1", "-", "0">>>>))
    /\ file.size = 2
    /\ world.finishCalls = 1
    /\ Body = FileSlice(0, 1)

ExpectedType ==
    IF file.name \in {NamePlain, NameTxtGzGz} THEN "text/html" ELSE "text/plain"
ExpectedEncoding ==
    IF file.name \in {NameTxtGz, NameTxtGzGz} THEN Some("gzip") ELSE None

\* C7: with no Range header, status 200, Content-Length (the file size),
\* Content-Type and (when the file has one) Content-Encoding are set before
\* the first body byte; the producer writes the file from offset 0 in chunks
\* of at most bufferSize, and unregisters and finishes only after them all.
C7_WholeFileStreaming ==
    /\ result = "none" => world.written = <<>>
    /\ (IsGet /\ MadeProducer /\ request.range = None)
       => /\ code = OK
          /\ headers.contentLength = Some(file.size)
          /\ headers.contentType = Some(ExpectedType)
          /\ headers.contentEncoding = ExpectedEncoding
          /\ \A i \in 1..Len(world.written) :
                 /\ Len(world.written[i]) <= BufferSize
                 /\ world.written[i] =
                        FileSlice((i - 1) * BufferSize,
                                  Min(i * BufferSize, file.size) - 1)
          /\ world.finishCalls <= 1
          /\ world.finishCalls = 1
             => /\ Body = FileSlice(0, file.size - 1)
                /\ world.unregisterCalls = 1
                /\ ~world.registered

\* C7 witness: a gzip-encoded file longer than one buffer, fully served
C7_Witness ==
    /\ IsGet /\ MadeProducer /\ request.range = None
    /\ file.name = NameTxtGz
    /\ file.size > BufferSize
    /\ Len(world.written) = 2
    /\ world.finishCalls = 1

\* The body the producer writes when no request.write re-enters it
RECURSIVE SequentialBody(_)
SequentialBody(w) ==
    IF w.raised # "none" \/ w.hung \/ ~w.registered THEN Flatten(w.written)
    ELSE LET run(r) == IF r.suspended THEN afterWrite(r.w, r.frame) ELSE r.w
         IN  SequentialBody(run(resumeProducing(w, file.size)))

\* C8: when any request.write inside resumeProducing may call
\* resumeProducing again before returning, each producer writes the same
\* bytes as without re-entry, calls unregisterProducer and finish once, and
\* never makes a call on a request reference it has released.
C8_ReentrancySafe ==
    (IsGet /\ MadeProducer /\ stops = 0)
    => /\ world.raised # "AttributeError"
       /\ world.unregisterCalls <= 1
       /\ world.finishCalls <= 1
       /\ LET sequential ==
                  SequentialBody(renderGET(file, "GET", request.range, FALSE,
                                           request.uri, request.secure, Host).world)
          IN  /\ IsPrefix(Body, sequential)
              /\ world.finishCalls = 1 => Body = sequential

\* C9: a stopProducing call closes the file and releases the request and
\* never writes, unregisters or finishes; a second or later call changes
\* nothing at all.
C9_StopIdempotent ==
    [][stops' = stops + 1
       => /\ world'.fileObject.closed
          /\ ~world'.producer.request
          /\ world'.finishCalls = world.finishCalls
          /\ world'.unregisterCalls = world.unregisterCalls
          /\ world'.registered = world.registered
          /\ world'.written = world.written
          /\ world'.raised = "none"
          /\ stops >= 1 => world' = world]_vars

\* C9 witness: a producer stopped twice in mid-stream
C9_Witness ==
    /\ stops = 2
    /\ world.written # <<>>
    /\ world.finishCalls = 0
    /\ world.fileObject.closed
    /\ ~world.producer.request

\* C10: a HEAD request gets the response code and headers of the same
\* request made with GET, registers no producer and writes no body byte.
C10_HeadSameAsGet ==
    (request.method = "HEAD" /\ result # "none")
    => LET get == renderGET(file, "GET", request.range, request.cached,
                            request.uri, request.secure, Host)
       IN  /\ code = get.code
           /\ headers = get.headers
           /\ world.registerCalls = 0
           /\ ~world.registered
           /\ world.written = <<>>
           /\ stack = <<>>

\* C10 witness: a HEAD request for two ranges, answered 206 without a body
C10_Witness ==
    /\ request.method = "HEAD" /\ MadeProducer /\ ParsesToMany
    /\ code = PARTIAL_CONTENT
    /\ result = "empty"
    /\ world.producer.kind = "MultipleRange"

RenderedFile == result # "none" /\ file.kind = "file"

\* C11: when setLastModified reports a cache hit, render_GET returns the
\* empty body (304), makeProducer is never called (no producer object, no
\* Content-* header it would set, nothing registered) and no body byte is
\* written.
C11_CacheHitSkipsProducer ==
    (RenderedFile /\ file.openError = "none" /\ request.cached)
    => /\ result = "empty"
       /\ code = NOT_MODIFIED
       /\ world.producer = NoProducer
       /\ world.registerCalls = 0
       /\ world.written = <<>>
       /\ headers = [NoHeaders EXCEPT !.acceptRanges = Some("bytes")]

\* C11 witness: a cache hit on a GET that carries a Range header
C11_Witness ==
    /\ RenderedFile /\ request.cached /\ IsGet
    /\ request.range = Some(BytesHeader(<<<<"0", "-", "0">>>>))
    /\ file.size = 2
    /\ code = NOT_MODIFIED

\* C12: a permission error (EACCES) on opening the file gives the 403
\* response, with no producer and no file byte written; any other failure
\* to open is raised out of render_GET, the file not opened again.
C12_OpenFailure ==
    /\ (RenderedFile /\ file.openError = "EACCES")
       => /\ code = FORBIDDEN
          /\ result = "forbiddenPage"
          /\ world = NoWorld
    /\ (RenderedFile /\ file.openError \notin {"none", "EACCES"})
       => /\ result = "raised"
          /\ world = raise(NoWorld, "IOError")
          /\ code = 0

\* C12 witness: a HEAD request for a file that may not be read
C12_Witness ==
    /\ RenderedFile /\ file.openError = "EACCES"
    /\ request.method = "HEAD"
    /\ code = FORBIDDEN

\* The Location expected for each request URI: the path with one '/'
\* appended, then the query string as it was
ExpectedPathAndQuery ==
    IF request.uri = <<"/", "d">> THEN <<"/", "d", "/">>
    ELSE IF request.uri = <<"/", "d", "?", "q">> THEN <<"/", "d", "/", "?", "q">>
    ELSE <<"/", "d", "/", "?", "q", "?", "r">>

\* C13: rendering a File whose path is a directory redirects to the request
\* URL (scheme, Host header, path) with one '/' appended to the path and
\* the query string kept unchanged after it; no file is opened and no
\* producer made.
C13_DirectoryRedirect ==
    (result # "none" /\ file.kind = "dir")
    => /\ result = "redirectPage"
       /\ code = FOUND
       /\ headers.location =
              Some((IF request.secure THEN <<"h", "t", "t", "p", "s">>
                    ELSE <<"h", "t", "t", "p">>)
                   \o <<":", "/", "/">> \o Host \o ExpectedPathAndQuery)
       /\ world = NoWorld

\* C13 witness: a secure request for a directory, with a query string
C13_Witness ==
    /\ result = "redirectPage" /\ file.kind = "dir"
    /\ request.secure
    /\ request.uri = <<"/", "d", "?", "q">>

\* C20: render_GET answers not-found for a missing target, then a redirect
\* for a directory, and only then sets Accept-Ranges and opens the file:
\* Accept-Ranges: bytes is on every 200, 206, 416, 304 and 403 response for
\* a file and on no not-found or redirect response, and no file is opened
\* for a missing target or a directory.
C20_RenderOrder ==
    result # "none"
    => /\ file.kind = "missing"
          => /\ code = NOT_FOUND /\ result = "notFoundPage"
             /\ headers = NoHeaders
             /\ ~world.fileObject.opened
       /\ file.kind = "dir"
          => /\ code = FOUND /\ result = "redirectPage"
             /\ headers.acceptRanges = None
             /\ ~world.fileObject.opened
       /\ file.kind = "file"
          => /\ headers.acceptRanges = Some("bytes")
             /\ code \in {OK, PARTIAL_CONTENT, REQUESTED_RANGE_NOT_SATISFIABLE,
                          NOT_MODIFIED, FORBIDDEN}
                \/ (result = "raised" /\ file.openError # "none")
             /\ world.fileObject.opened <=> file.openError = "none"

\* C20 witness: a 416 response for a file, Accept-Ranges set
C20_Witness ==
    /\ RenderedFile
    /\ code = REQUESTED_RANGE_NOT_SATISFIABLE
    /\ headers.acceptRanges = Some("bytes")
    /\ world.fileObject.opened

\* getChild was asked for the segment Segment
Asked == request.prepath # <<>>
Segment == request.prepath[1]
HasDotDot(path) ==
    \E i \in 1..(Len(path) - 1) : path[i] = "." /\ path[i + 1] = "."
HasSeparator(path) == \E i \in 1..Len(path) : path[i] = "/"
Served == {"File", "processor"}

\* C14 as claimed: for a segment that contains '..' or a path separator
\* getChild returns the not-found resource, whether or not the target exists.
C14_ContainsDotDotNotFound ==
    (Asked /\ (HasDotDot(Segment) \/ HasSeparator(Segment)))
    => childResource = childNotFound(file)

\* C14 amended: for a segment that is '..' or contains a path separator
\* getChild returns the not-found resource, whether or not the target
\* exists: never a File, a processor resource or a directory listing.
C14_TraversalNotFound ==
    (Asked /\ (Segment = DotDot \/ HasSeparator(Segment)))
    => childResource = childNotFound(file)

\* C14 witness: b/a asked of a directory whose subdirectory b exists
C14_Witness ==
    /\ Asked /\ file.kind = "dir"
    /\ Segment = NameBA
    /\ NameB \in file.children
    /\ childResource = childNotFound(file)

\* The positions of the index names that exist in the directory
IndexesPresent ==
    {i \in 1..Len(file.indexNames) : file.indexNames[i] \in file.children}
FirstOf(positions) == CHOOSE i \in positions : \A j \in positions : i <= j

\* C15: for the empty segment on a directory getChild resolves to the first
\* name of indexNames, in list order, that exists in the directory; if none
\* exists it returns a DirectoryLister, never not-found.
C15_IndexOrListing ==
    (Asked /\ file.kind = "dir" /\ Segment = <<>>)
    => IF IndexesPresent = {}
       THEN childResource.kind = "DirectoryLister"
       ELSE /\ childResource.kind \in Served
            /\ childResource.path = file.indexNames[FirstOf(IndexesPresent)]

\* C15 witness: both index.html and index.rpy exist, index.html is served
C15_Witness ==
    /\ Asked /\ file.kind = "dir" /\ Segment = <<>>
    /\ {NameIndexHtml, NameIndexRpy} \subseteq file.children
    /\ childResource.path = NameIndexHtml

\* The positions of the ignored extensions whose sibling exists
SiblingsPresent ==
    {i \in 1..Len(file.ignoredExts) :
        (Segment \o file.ignoredExts[i]) \in file.children}
SafeSegment ==
    /\ Segment # <<>> /\ Segment # DotDot
    /\ ~HasSeparator(Segment)

\* C16: for a non-empty safe segment that does not exist getChild resolves
\* to segment+ext for the first ignored extension, in configured order, for
\* which that exists, and to not-found if there is none; a segment that
\* exists is never replaced by a sibling.
C16_SiblingSearch ==
    (Asked /\ file.kind = "dir" /\ SafeSegment)
    => IF Segment \in file.children
       THEN /\ childResource.kind \in Served
            /\ childResource.path = Segment
       ELSE IF SiblingsPresent = {}
       THEN childResource = childNotFound(file)
       ELSE /\ childResource.kind \in Served
            /\ childResource.path =
                   Segment \o file.ignoredExts[FirstOf(SiblingsPresent)]

\* C16 witness: a is missing, a.x and a.RPY both exist, .RPY is ignored first
C16_Witness ==
    /\ Asked /\ file.kind = "dir"
    /\ Segment = NameA /\ NameA \notin file.children
    /\ {NameAX, NameARpy} \subseteq file.children
    /\ file.ignoredExts = <<ExtRPY, ExtX>>
    /\ childResource.path = NameARpy

\* The extension of the resolved path is a key of the processors map (of
\* the case-insensitive one the code looks it up in on win32)
HasProcessor ==
    LET ext == splitext(childResource.path)[2]
    IN  IF request.platformType = "win32"
        THEN \E k \in file.processors : Lower(k) = Lower(ext)
        ELSE ext \in file.processors

\* C17: getChild returns the processor's resource whenever the extension
\* of the path finally resolved (the candidate, an index file or a sibling)
\* is a key of the processors map, and a plain File for that path otherwise.
C17_ProcessorDispatch ==
    (Asked /\ childResource.kind \in Served)
    => /\ childResource.kind = "processor" <=> HasProcessor
       /\ (ExtRpy \in file.processors /\ childResource.path = NameIndexRpy)
          => childResource.kind = "processor"

\* C17 witness: a resolved through its sibling a.RPY to the .rpy processor
C17_Witness ==
    /\ Asked /\ Segment = NameA
    /\ childResource.path = NameARpy
    /\ childResource.kind = "processor"

Listed == listing # None
Page == listing[1].page
Gone == listing[1].gone

\* The entry a row is for: its link, unquoted, without the '/' of a directory
RowName(row) ==
    LET h == unquote(row.href)
    IN  IF h # <<>> /\ h[Len(h)] = "/" THEN SubSeq(h, 1, Len(h) - 1) ELSE h
RowNames == [i \in 1..Len(Page.tableContent) |-> RowName(Page.tableContent[i])]
IsDirectoryName(n) == n = NameB

\* C18 as claimed: with no entry gone, the listing has one row per entry,
\* in ascending order of name over all entries when no dirs were given and
\* in the caller's order when they were, directories and files alike.
C18_RowsInNameOrder ==
    (Listed /\ Gone = {})
    => IF childResource.dirs = None
       THEN /\ Range(RowNames) = file.children
            /\ \A i, j \in 1..Len(RowNames) :
                   i < j => NameLess(RowNames[i], RowNames[j])
       ELSE RowNames = childResource.dirs[1]

\* C18 amended: the listing has one row per entry that is still there, the
\* directories first and the files after them, each of the two groups in
\* ascending order of name when no dirs were given and in the caller's
\* order when they were.
C18_DirectoriesThenFiles ==
    Listed
    => LET isDir(n) == IsDirectoryName(n) /\ n \notin Gone
           isFile(n) == ~IsDirectoryName(n) /\ n \notin Gone
       IN  IF childResource.dirs = None
           THEN /\ Range(RowNames) = file.children \ Gone
                /\ Len(RowNames) = Cardinality(file.children \ Gone)
                /\ \A i, j \in 1..Len(RowNames) :
                       i < j => /\ isDir(RowNames[j]) => isDir(RowNames[i])
                                /\ isDir(RowNames[i]) = isDir(RowNames[j])
                                   => NameLess(RowNames[i], RowNames[j])
           ELSE RowNames = SelectSeq(childResource.dirs[1], isDir)
                           \o SelectSeq(childResource.dirs[1], isFile)

\* C18 witness: a listing of a, a.x and the directory b, whose row is first
C18_Witness ==
    /\ Listed /\ Gone = {}
    /\ childResource.dirs = None
    /\ file.children = {NameA, NameAX, NameB}
    /\ RowNames = <<NameB, NameA, NameAX>>

\* C19: an entry that vanished between enumeration and stat has no row,
\* every other entry has exactly one, and render does not raise.
C19_VanishedEntrySkipped ==
    Listed
    => /\ ~Page.raised
       /\ \A n \in EntryNames :
              Cardinality({i \in 1..Len(RowNames) : RowNames[i] = n})
              = IF n \in Gone THEN 0
                ELSE IF childResource.dirs = None
                THEN (IF n \in file.children THEN 1 ELSE 0)
                ELSE (IF n \in Range(childResource.dirs[1]) THEN 1 ELSE 0)

\* C19 witness: a.x vanished while a, a.x and b were listed
C19_Witness ==
    /\ Listed /\ Gone = {NameAX}
    /\ file.children = {NameA, NameAX, NameB}
    /\ childResource.dirs = None
    /\ RowNames = <<NameB, NameA>>

\* render_GET parsed the Range header of the request
ParsedHeader == MadeProducer /\ request.range # None /\ Parsed.ok
\* The entries of a Range header that must make the parse fail: both
\* bounds empty, start after end, no '-' at all
BadEntries == {<<"-">>, <<"1", "-", "0">>, <<"x">>}
GoodEntry == <<"0", "-", "1">>
BadEntryHeaders ==
    {BytesHeader(<<e>>) : e \in BadEntries}
    \cup {BytesHeader(<<e, GoodEntry>>) : e \in BadEntries}
    \cup {BytesHeader(<<GoodEntry, e>>) : e \in BadEntries}
    \cup {<<"i", "t", "e", "m", "s", "=", "0", "-", "0">>}
\* The headers whose unit is bytes and whose entries are all empty
EmptyHeaders == {BytesHeader(<<<<>>>>), BytesHeader(<<<<>>, <<>>>>)}

\* C21: _parseRangeHeader raises ValueError or returns at least one pair; a
\* header of unit bytes with no non-empty entry (bytes= or bytes=,) fails to
\* parse, it does not yield an empty list.
C21_ParseNeverEmpty ==
    (MadeProducer /\ request.range # None)
    => /\ Parsed.ok => Len(Parsed.ranges) >= 1
       /\ request.range[1] \in EmptyHeaders => ~Parsed.ok

\* C22: every pair _parseRangeHeader returns has at least one bound, and
\* start <= end when it has both; an entry with both bounds empty, with
\* start > end or without '-', and a unit other than bytes, make the whole
\* parse fail, whatever the other entries are.
C22_ParsedPairsValid ==
    (MadeProducer /\ request.range # None)
    => /\ Parsed.ok
          => \A i \in 1..Len(Parsed.ranges) :
                 LET start == Parsed.ranges[i][1]
                     end == Parsed.ranges[i][2]
                 IN  /\ start # None \/ end # None
                     /\ (start # None /\ end # None) => start[1] <= end[1]
       /\ request.range[1] \in BadEntryHeaders
          => /\ ~Parsed.ok
             /\ world.producer.kind = "NoRange"

\* C22 witness: a header whose second entry has start > end, served whole
C22_Witness ==
    /\ MadeProducer /\ IsGet
    /\ request.range = Some(BytesHeader(<<GoodEntry, <<"1", "-", "0">>>>))
    /\ ~Parsed.ok
    /\ code = OK

\* The resolution of a range as the specification states it
ReferenceResolve(start, end, S) ==
    LET offset == IF start = None THEN S - end[1] ELSE start[1]
        effectiveEnd == IF start = None \/ end = None \/ end[1] >= S THEN S
                        ELSE end[1] + 1
    IN  IF offset >= S THEN <<0, 0>> ELSE <<offset, effectiveEnd - offset>>

\* C23: for every file size and every valid pair, _rangeToOffsetAndSize
\* gives offset = S - end for an omitted start and start otherwise, the
\* effective end S for an omitted start or end or an end >= S and end + 1
\* otherwise, and (0, 0) if offset >= S, else (offset, effective end - offset);
\* that pair is what the single-range producer is made with.
C23_ResolveMatchesReference ==
    ParsedHeader
    => /\ \A i \in 1..Len(Parsed.ranges) :
              Resolved(i) = ReferenceResolve(Parsed.ranges[i][1],
                                             Parsed.ranges[i][2], file.size)
       /\ ParsesToOne
          => <<world.producer.offset, world.producer.size>>
             = ReferenceResolve(Parsed.ranges[1][1], Parsed.ranges[1][2],
                                file.size)

\* C23 witness: a range from 1 to past the end of the largest file, clamped
C23_Witness ==
    /\ ParsedHeader /\ ParsesToOne
    /\ request.range = Some(BytesHeader(<<FormatRange(Some(1),
                                                      Some(MaxFileSize + 1))>>))
    /\ file.size = MaxFileSize
    /\ world.producer.offset = 1
    /\ world.producer.size = MaxFileSize - 1

\* C24: every (offset, size) _rangeToOffsetAndSize returns lies in
\* [0, fileSize]: 0 <= offset <= fileSize and 0 <= size <= fileSize, suffix
\* ranges longer than the file and the empty file included.
C24_ResolvedWithinFile ==
    ParsedHeader
    => \A i \in 1..Len(Parsed.ranges) :
           /\ 0 <= Resolved(i)[1] /\ Resolved(i)[1] <= file.size
           /\ 0 <= Resolved(i)[2] /\ Resolved(i)[2] <= file.size

\* C25: _rangeToOffsetAndSize never returns an offset > S, and never a
\* size with offset + size > S, the (0, 0) sentinel apart.
C25_ResolvedNeverPastEnd ==
    ParsedHeader
    => \A i \in 1..Len(Parsed.ranges) :
           \/ Resolved(i) = <<0, 0>>
           \/ /\ Resolved(i)[1] <= file.size
              /\ Resolved(i)[1] + Resolved(i)[2] <= file.size

\* C25 witness: a suffix one byte longer than the file, resolved to end at S
C25_Witness ==
    /\ ParsedHeader /\ ParsesToOne
    /\ request.range = Some(BytesHeader(<<FormatRange(None,
                                                      Some(MaxFileSize + 1))>>))
    /\ file.size = MaxFileSize
    /\ Resolved(1) = <<0 - 1, MaxFileSize + 1>>
    /\ world.producer.size = MaxFileSize + 1

\* The bytes a rangeInfo list promises: every separator, every part, and
\* the closing boundary
RECURSIVE RangeInfoLength(_)
RangeInfoLength(rangeInfo) ==
    IF rangeInfo = <<>> THEN 0
    ELSE Len(Head(rangeInfo)[1]) + Head(rangeInfo)[3]
         + RangeInfoLength(Tail(rangeInfo))
Finished == world.finishCalls > 0

\* C26: once finish has been called, the body bytes written are as many as
\* the Content-Length header says, which is the file size for the
\* whole-file producer, the range size for the single-range one, and the
\* sum of the separators, the parts and the closing boundary for the
\* multi-range one; finish is not called with fewer or more bytes written.
C26_FinishAtContentLength ==
    (MadeProducer /\ Finished)
    => /\ headers.contentLength # None
       /\ Len(Body) = headers.contentLength[1]
       /\ world.producer.kind = "NoRange" => Len(Body) = file.size
       /\ world.producer.kind = "SingleRange" => Len(Body) = world.producer.size
       /\ world.producer.kind = "MultipleRange"
          => Len(Body) = RangeInfoLength(world.producer.rangeInfo)

\* C26 witness: a multi-range response of two parts, finished
C26_Witness ==
    /\ MadeProducer /\ Finished
    /\ world.producer.kind = "MultipleRange"
    /\ Len(world.producer.rangeInfo) = 3
    /\ Len(Body) = 2 * SepLen + 2 + FinalLen

\* C27: every resumeProducing call issues at most one request.write, and
\* the chunk it passes is at most bufferSize long, part separators and
\* closing boundary included.
C27_ChunkWithinBuffer ==
    /\ \A i \in 1..Len(world.written) : Len(world.written[i]) <= BufferSize
    /\ Len(stack) <= Len(world.written)

\* C28: body bytes are written only by a resumeProducing call, one chunk
\* for one call: construction and start() write nothing (start() registers
\* the producer), so there are never more writes than resumeProducing calls.
C28_WritesOnlyWhenPulled ==
    [][/\ world'.written # world.written
          => /\ world.registerCalls > 0
             /\ world' = resumeProducing(world, file.size).w
             /\ Len(world'.written) = Len(world.written) + 1
             /\ SubSeq(world'.written, 1, Len(world.written)) = world.written
       /\ (result = "none" /\ result' # "none")
          => /\ world'.written = <<>>
             /\ result' = "NOT_DONE_YET"
                => /\ world'.registered
                   /\ world'.registerCalls = 1]_vars

\* C28 witness: a multi-range producer started and registered, not yet
\* pulled, nothing written
C28_Witness ==
    /\ result = "NOT_DONE_YET"
    /\ world.producer.kind = "MultipleRange"
    /\ world.registered
    /\ world.written = <<>>
    /\ world.fileObject.pos = 1

\* C29: when the consumer never disconnects and the transport keeps calling
\* resumeProducing, every started (registered) producer goes on to call
\* unregisterProducer and finish: until it has, no resumeProducing call
\* raises and none fails to return, so the next call can always be made.
C29_StartedProducerFinishes ==
    (world.registerCalls > 0 /\ stops = 0 /\ ~Finished)
    => /\ world.raised = "none"
       /\ ~world.hung

\* C30: once stopProducing has been called, by the transport between two
\* pulls or from inside a request.write, the producer reads and writes
\* nothing more, calls neither unregisterProducer nor finish, and every
\* resumeProducing call made later or still unwinding returns without
\* raising.
C30_StoppedProducerInert ==
    [][(stops >= 1 /\ stops' = stops)
       => /\ world'.written = world.written
          /\ world'.fileObject = world.fileObject
          /\ world'.unregisterCalls = world.unregisterCalls
          /\ world'.finishCalls = world.finishCalls
          /\ world'.raised = "none"]_vars

\* The request is over: render_GET returned the empty body (cache hit,
\* HEAD), the producer called finish, or the transport called stopProducing
RequestOver == result = "empty" \/ Finished \/ stops >= 1

\* C31: every file handle render_GET opened is closed once the request is
\* over: after the producer finished (each of the three), after
\* stopProducing, and when render_GET returned without starting a producer
\* (304 cache hit, HEAD).
C31_HandleClosed ==
    (world.fileObject.opened /\ RequestOver) => world.fileObject.closed

\* C32: every resumeProducing call returns after finitely many reads, also
\* when a read returns fewer bytes than asked for or none at all: the fill
\* loop of the multi-range producer always exits.
C32_ResumeReturns == ~world.hung

\* C33: getTypeAndEncoding takes the encoding from the lower-cased final
\* extension when that is a key of the encodings, and then looks the type
\* up under the lower-cased extension of the name without it; otherwise
\* there is no encoding and the type is looked up under the lower-cased
\* final extension; a missing type gives the default, and one encoding
\* suffix at most is stripped.  So a.txt is text/plain, a.TXT.GZ is
\* text/plain with gzip, a has the default type, and a.txt.gz.gz is gzip
\* with the default type ('.gz' is not a type), and so has the directory
\* b; render_GET caches that pair on the File.
C33_TypeAndEncoding ==
    result # "none"
    => /\ file.name = NameTxt
          => file.type = Some("text/plain") /\ file.encoding = None
       /\ file.name = NameTxtGz
          => file.type = Some("text/plain") /\ file.encoding = Some("gzip")
       /\ file.name \in {NamePlain, NameB}
          => file.type = Some(file.defaultType) /\ file.encoding = None
       /\ file.name = NameTxtGzGz
          => file.type = Some(file.defaultType) /\ file.encoding = Some("gzip")
       /\ file.name \in {NameTxt, NameTxtGz, NamePlain, NameB, NameTxtGzGz}

\* C33 witness: a.txt.gz.gz served, gzip-encoded, with the default type
C33_Witness ==
    /\ result = "NOT_DONE_YET"
    /\ file.name = NameTxtGzGz
    /\ headers.contentEncoding = Some("gzip")
    /\ headers.contentType = Some(DefaultType)

\* The rows of the listing that are for files, and the size of a row's entry
FileRows == {i \in 1..Len(RowNames) : ~IsDirectoryName(RowNames[i])}
RowSize(i) == entrySize(file, RowNames[i])
UnitNames == <<"B", "K", "M", "G">>
\* text is the truncated quotient of size by 1024^k and the k-th unit, that
\* unit being the smallest one for which the quotient is below 1024 (which
\* is size < 1024^(k+1))
SmallestUnitText(text, size) ==
    \E k \in 0..3 :
        /\ BigBelow(size, k + 1)
        /\ \A j \in 0..(k - 1) : ~BigBelow(size, j + 1)
        /\ text = FormatNat(BigQuotient(size, k)) \o <<UnitNames[k + 1]>>
\* The sizes of the served entries as a listing must print them
ExpectedSizeText(f, name) ==
    IF f.sizes = "small"
    THEN (IF name = NameA THEN <<"0", "B">>
          ELSE IF name = NameAX THEN <<"1", "0", "2", "3", "B">>
          ELSE IF name = NameARpy THEN <<"1", "K">>
          ELSE IF name = NameADotsB THEN <<"1", "K">>
          ELSE IF name = NameIndexHtml THEN <<"1", "M">>
          ELSE <<"1", "G">>)
    ELSE (IF name = NameA THEN <<"1", "0", "2", "3", "K">>
          ELSE IF name = NameAX THEN <<"1", "0", "2", "3", "M">>
          ELSE IF name = NameARpy THEN <<"1", "0", "2", "3", "G">>
          ELSE IF name = NameADotsB THEN <<"1", "0", "2", "4", "G">>
          ELSE IF name = NameIndexHtml THEN <<"2", "0", "4", "8", "G">>
          ELSE <<"1", "0", "2", "3", "G">>)

\* C35 as claimed: for every size, formatFileSize prints the truncated
\* quotient of the size by 1024^k and the unit B, K, M or G, the unit being
\* the smallest one for which the printed value is below 1024.
C35_ValueBelow1024 ==
    Listed
    => \A i \in FileRows : SmallestUnitText(Page.tableContent[i].size, RowSize(i))

\* C35 amended: for a size below 1024^4, formatFileSize prints the truncated
\* quotient of the size by 1024^k and the unit B, K, M or G, the unit being
\* the smallest one for which the printed value is below 1024 (1023 is
\* 1023B, 1024 is 1K, 1048575 is 1023K, 1048576 is 1M); for a size of
\* 1024^4 or more it prints the quotient by 1024^3 and the unit G, a value
\* of 1024 or more (1024^4 is 1024G).
C35_FormatFileSize ==
    Listed
    => \A i \in FileRows :
           /\ Page.tableContent[i].size = ExpectedSizeText(file, RowNames[i])
           /\ BigBelow(RowSize(i), 4)
              => SmallestUnitText(Page.tableContent[i].size, RowSize(i))
           /\ ~BigBelow(RowSize(i), 4)
              => /\ Page.tableContent[i].size
                    = FormatNat(BigQuotient(RowSize(i), 3)) \o <<"G">>
                 /\ BigQuotient(RowSize(i), 3) >= 1024

\* C35 witness: a listing with a file of 1024^4 - 1 bytes, shown as 1023G,
\* and one of 1024^4 bytes, shown as 1024G
C35_Witness ==
    /\ Listed
    /\ file.sizes = "large"
    /\ \E i, j \in FileRows :
           /\ RowNames[i] = NameARpy
           /\ Page.tableContent[i].size = <<"1", "0", "2", "3", "G">>
           /\ RowNames[j] = NameADotsB
           /\ Page.tableContent[j].size = <<"1", "0", "2", "4", "G">>

\* The attributes a File hands on to the Files it makes
ConfigOf(r) ==
    [indexNames |-> r.indexNames, ignoredExts |-> r.ignoredExts,
     processors |-> r.processors, defaultType |-> r.defaultType,
     registry |-> r.registry, childNotFound |-> r.childNotFound]
SharedConfigOf(r) ==
    [processors |-> r.processors, defaultType |-> r.defaultType,
     registry |-> r.registry, childNotFound |-> r.childNotFound]

\* C34: a File that getChild makes through createSimilarFile, at any
\* depth, has the index names, ignored extensions, processors, default
\* type, registry and not-found resource of the File it was made from; its
\* index names and ignored extensions are copies, so appending to them
\* changes neither list of the File it was made from (and the other four
\* attributes stay the same on both).
C34_ChildInheritsConfiguration ==
    [][/\ (childResource.kind # "File" /\ childResource'.kind = "File")
          => /\ ConfigOf(childResource') = ConfigOf(file')
             /\ file' = file
       /\ (childResource.kind = "File" /\ childResource'.kind = "File")
          => /\ file'.indexNames = file.indexNames
             /\ file'.ignoredExts = file.ignoredExts
             /\ SharedConfigOf(childResource') = SharedConfigOf(file')]_vars

\* C34 witness: below the root, a File made by a File that was made with
\* another default type, registry and not-found resource has them too, and
\* an extension more than its parent after ignoreExt
C34_Witness ==
    /\ file.depth = 1
    /\ childResource.kind = "File"
    /\ childResource.appends = 1
    /\ childResource.ignoredExts = file.ignoredExts \o <<<<".", "b", "a", "k">>>>
    /\ childResource.indexNames = file.indexNames
    /\ SharedConfigOf(childResource)
       = [processors |-> {ExtRpy}, defaultType |-> OtherType,
          registry |-> "given", childNotFound |-> "custom"]

====
